---- MODULE Spec2Model ----
(***************************************************************************)
(* Risk & health scoring of the workforce dashboard.                       *)
(*                                                                         *)
(* The state is the content of the SQLite tables the pages read            *)
(* (utils/database.py) and the tables the scoring pages derive from them:  *)
(*   pages/15_AI_Summary.py   compute_attrition_risk  -> risk_df           *)
(*   pages/10_Projects.py     health_rows loop        -> health_df         *)
(*   pages/8_Mood_Analytics.py score_to_label         -> mood_label        *)
(*                                                                         *)
(* Modelling conventions                                                   *)
(*  - A table whose rows the code only filters, counts and averages        *)
(*    (attendance, feedback, tasks) is a bag of rows; a table whose row    *)
(*    order the code can observe (employees, mood_logs, projects) is a     *)
(*    sequence of rows in insertion order.                                 *)
(*  - Only the columns a scorer reads are kept in a row.                   *)
(*  - Calendar dates are day numbers; a date string pandas cannot parse    *)
(*    is the value NaT.                                                    *)
(*  - A cell that may hold a non-numeric value is a record                 *)
(*    [num |-> BOOLEAN, v |-> Int]; pd.to_numeric(errors="coerce") maps    *)
(*    num = FALSE to NaN.                                                  *)
(*  - Float comparisons of a ratio c/n with a decimal constant are done    *)
(*    by cross-multiplication on integers (c/n > 0.3 iff 10*c > 3*n).      *)
(*  - A text cell is a sequence of words; str.contains(w) / `w in s` is    *)
(*    the presence of the word w.                                          *)
(*  - To compare two runs of a page the outcome of the run before is      *)
(*    kept in risk_prev / health_prev when history is TRUE; the pages      *)
(*    themselves keep nothing between runs.                                *)
(***************************************************************************)
EXTENDS Bags, FiniteSets, Integers, Naturals, Sequences, TLC

VARIABLES
    emp_df,          \* employees table: sequence of [Emp_ID, Status]
    att_df,          \* attendance table: bag of [emp_id, status]
    mood_df,         \* mood_logs table: sequence of [emp_id, remarks, mood_score, log_date]
    mood_score_col,  \* TRUE iff the mood_logs table has a mood_score column
    feedback_df,     \* feedback table: bag of [receiver_id, rating]
    tasks_df,        \* tasks table: bag of [emp_id, status, due_date]
    project_df,      \* projects table: sequence of [project_id, owner_emp_id, status, progress, due_date]
    today,           \* date.today() as a day number
    risk_run,        \* outcome of the last run of pages/15: "idle", "done", "raised"
    risk_df,         \* result table of the last completed run of compute_attrition_risk
    health_run,      \* outcome of the last run of pages/10: "idle", "done"
    health_df,       \* result table of the last completed health computation
    answers,         \* the five answers of the last mood survey, <<>> when none
    score_cell,      \* a mood_score cell of the mood analytics page
    mood_label,      \* the label derived from score_cell, "" before score_to_label ran
    history,         \* TRUE iff the outcome of the previous page run is kept for comparison
    risk_prev,       \* outcome <<risk_run, risk_df>> of the previous run of pages/15
    touched,         \* Emp_IDs whose signal rows changed since the run kept in risk_prev
    health_prev,     \* outcome <<health_run, health_df>> of the previous run of pages/10
                     \* on the same tables
    tenure,          \* tenure metrics of the last run of pages/15: "idle", "none" or
                     \* [avg, min, max]
    users,           \* users table: set of [id, username, password, role]
    session,         \* st.session_state: a function from its keys to their values
    login_result,    \* the last call of login: its arguments and what it returned
    visit            \* the last page run: [page, body], body TRUE iff the script ran
                     \* past its access gates

dbVars == <<emp_df, att_df, mood_df, mood_score_col, feedback_df, tasks_df, project_df, today>>
riskOut == <<risk_run, risk_df>>
healthOut == <<health_run, health_df>>
labelVars == <<answers, score_cell, mood_label>>
histVars == <<history, risk_prev, touched, health_prev>>
tenureOut == <<tenure>>
authVars == <<users, session, login_result, visit>>

vars == <<dbVars, riskOut, healthOut, labelVars, histVars, tenureOut, authVars>>

----------------------------------------------------------------------------
(* Bounds of the model *)

\* employees in the employees table
MaxEmps == 2
\* rows of the attendance table
MaxAtt == 4
\* rows of the mood_logs table (attrition model)
MaxMood == 1
\* rows of the feedback table
MaxFb == 1
\* rows of the tasks table
MaxTasks == 3
\* rows of the projects table
MaxProjects == 1
\* rows of all signal tables together (attrition model)
MaxRows == 6
\* rows of the attendance, mood_logs and projects tables together (project health model)
MaxHealthRows == 4
\* rows of all tables together (model of repeated runs)
MaxRunRows == 3
\* rows of all signal tables together (model of arbitrary employee records)
MaxRecordRows == 2
\* rows of the attendance table (model of the attendance component)
MaxAttRows == 20
\* rows of the mood_logs table (model of the mood component)
MaxMoodRows == 4
\* rows of the feedback table (model of the feedback component)
MaxFbRows == 4
\* rows of the tasks table (model of the task component)
MaxTaskRows == 4
\* mood and feedback rows together (model of values that are not numbers)
MaxCoerceRows == 3
\* rows of the mood_logs table (model of the latest mood entry)
MaxLatestMood == 3
\* days the clock advances (model of the latest mood entry)
MaxClock == 2
\* rows of the attendance table (model of the attendance sub-score)
MaxSubAtt == 5
\* employees in the employees table (model of the tenure metrics)
MaxTenureEmps == 2

----------------------------------------------------------------------------
(* Value domains *)

NaT == -1000

\* employee identifiers that occur in signal rows and as project owners
EmpIds == {1, 2}

\* the Emp_ID of an employee record without identifier (NULL, read as NaN):
\* it compares unequal to the emp_id of every signal row
NoId == 0

\* the day the model runs on; due dates are taken around it
Today == 10

EmpStatuses == {"Active", "Resigned"}

AttStatuses == {"Present", "Absent"}

NumCell(n) == [num |-> TRUE, v |-> n]
BadCell == [num |-> FALSE, v |-> 0]

\* (remarks, mood_score) of the mood rows of the attrition model
MoodKinds == { <<(<<"Stressed">>), NumCell(8)>>, <<(<<"Happy">>), NumCell(22)>> }

FbRatings == {NumCell(1)}

TaskKinds == { <<"Pending", Today - 1>> }

----------------------------------------------------------------------------
(* Helpers *)

Min(a, b) == IF a <= b THEN a ELSE b
Max(a, b) == IF a >= b THEN a ELSE b

Range(s) == { s[i] : i \in DOMAIN s }

RECURSIVE SumSeq(_)
SumSeq(s) == IF s = <<>> THEN 0 ELSE Head(s) + SumSeq(Tail(s))

\* number of rows of bag B (with multiplicity) that belong to the set S
CountIn(B, S) == BagCardinality([r \in S \cap BagToSet(B) |-> B[r]])

\* sum of the numeric ratings of the feedback rows of bag B that belong to S
RECURSIVE SumRatings(_, _)
SumRatings(B, S) ==
    IF S = {} THEN 0
    ELSE LET r == CHOOSE x \in S : TRUE
         IN CopiesIn(r, B) * r.rating.v + SumRatings(B, S \ {r})

\* str.lower() on the attendance status values
Lower(s) ==
    CASE s = "Present"  -> "present"
      [] s = "Absent"   -> "absent"
      [] s = "Half-day" -> "half-day"
      [] s = "Remote"   -> "remote"
      [] OTHER          -> s

\* str.contains(w) / `w in text` on a text cell
Contains(text, w) == \E i \in DOMAIN text : text[i] = w

TotalRows == BagCardinality(att_df) + Len(mood_df) + BagCardinality(feedback_df)
             + BagCardinality(tasks_df) + Len(project_df)

----------------------------------------------------------------------------
(* pages/15_AI_Summary.py: compute_attrition_risk *)

IsAbsentRow(r) == Lower(r.status) \in {"absent", "half-day"}

\* variant: the two absenteeism buckets carry each other's weight
AttendanceFactors_Swapped(att, eid) ==
    LET total_att    == CountIn(att, { r \in BagToSet(att) : r.emp_id = eid })
        absent_count == CountIn(att, { r \in BagToSet(att) : r.emp_id = eid /\ IsAbsentRow(r) })
    IN IF total_att > 0
       THEN IF 10 * absent_count > 3 * total_att
            THEN <<[risk |-> 15, factor |-> "High absenteeism"]>>
            ELSE IF 100 * absent_count > 15 * total_att
                 THEN <<[risk |-> 30, factor |-> "Moderate absenteeism"]>>
                 ELSE <<>>
       ELSE <<[risk |-> 5, factor |-> "No attendance data"]>>

\* variant: the thresholds belong to the higher bucket
AttendanceFactors_Inclusive(att, eid) ==
    LET total_att    == CountIn(att, { r \in BagToSet(att) : r.emp_id = eid })
        absent_count == CountIn(att, { r \in BagToSet(att) : r.emp_id = eid /\ IsAbsentRow(r) })
    IN IF total_att > 0
       THEN IF 10 * absent_count >= 3 * total_att
            THEN <<[risk |-> 30, factor |-> "High absenteeism"]>>
            ELSE IF 100 * absent_count >= 15 * total_att
                 THEN <<[risk |-> 15, factor |-> "Moderate absenteeism"]>>
                 ELSE <<>>
       ELSE <<[risk |-> 5, factor |-> "No attendance data"]>>

\* the attendance rule on the rows of eid in the attendance table att
AttendanceFactors(att, eid) ==
    LET total_att    == CountIn(att, { r \in BagToSet(att) : r.emp_id = eid })
        absent_count == CountIn(att, { r \in BagToSet(att) : r.emp_id = eid /\ IsAbsentRow(r) })
    IN IF total_att > 0
       THEN IF 10 * absent_count > 3 * total_att
            THEN <<[risk |-> 30, factor |-> "High absenteeism"]>>
            ELSE IF 100 * absent_count > 15 * total_att
                 THEN <<[risk |-> 15, factor |-> "Moderate absenteeism"]>>
                 ELSE <<>>
       ELSE <<[risk |-> 5, factor |-> "No attendance data"]>>

\* mood_df[mood_df["emp_id"] == eid]
EmpMood(eid) == SelectSeq(mood_df, LAMBDA r : r.emp_id = eid)

StressFactors(emp_mood) ==
    LET stressed_count == Len(SelectSeq(emp_mood, LAMBDA r : Contains(r.remarks, "Stressed")))
        total_mood     == Len(emp_mood)
    IN IF 10 * stressed_count > 5 * total_mood
       THEN <<[risk |-> 30, factor |-> "Frequently stressed"]>>
       ELSE IF 100 * stressed_count > 25 * total_mood
            THEN <<[risk |-> 15, factor |-> "Occasional stress"]>>
            ELSE <<>>

\* pd.to_numeric(emp_mood["mood_score"], errors="coerce").mean() < 10
AvgScoreFactors(emp_mood) ==
    LET numeric == SelectSeq(emp_mood, LAMBDA r : r.mood_score.num)
        total   == SumSeq([i \in DOMAIN numeric |-> numeric[i].mood_score.v])
    IN IF Len(numeric) > 0 /\ total < 10 * Len(numeric)
       THEN <<[risk |-> 10, factor |-> "Low avg mood score"]>>
       ELSE <<>>

\* variant: missing mood data is not penalised
MoodFactors_NoPenalty(eid) ==
    LET emp_mood == EmpMood(eid)
    IN IF emp_mood # <<>>
       THEN StressFactors(emp_mood) \o AvgScoreFactors(emp_mood)
       ELSE <<>>

\* variant: the average score is looked at only when no stress bucket fired
MoodFactors_Elif(eid) ==
    LET emp_mood == EmpMood(eid)
    IN IF emp_mood # <<>>
       THEN IF StressFactors(emp_mood) # <<>>
            THEN StressFactors(emp_mood)
            ELSE AvgScoreFactors(emp_mood)
       ELSE <<[risk |-> 5, factor |-> "No mood data available"]>>

MoodFactors(eid) ==
    LET emp_mood == EmpMood(eid)
    IN IF emp_mood # <<>>
       THEN StressFactors(emp_mood) \o AvgScoreFactors(emp_mood)
       ELSE <<[risk |-> 5, factor |-> "No mood data available"]>>

\* emp_mood["mood_score"] on a table without that column raises KeyError
MoodRaises(eid) == EmpMood(eid) # <<>> /\ ~mood_score_col

\* variant: the thresholds belong to the lower band
FeedbackFactors_Inclusive(eid) ==
    LET numeric == { r \in BagToSet(feedback_df) : r.receiver_id = eid /\ r.rating.num }
        n       == CountIn(feedback_df, numeric)
        total   == SumRatings(feedback_df, numeric)
    IN IF n > 0
       THEN IF 10 * total <= 25 * n
            THEN <<[risk |-> 20, factor |-> "Poor feedback rating"]>>
            ELSE IF 10 * total <= 35 * n
                 THEN <<[risk |-> 10, factor |-> "Below-average feedback"]>>
                 ELSE <<>>
       ELSE <<>>

FeedbackFactors(eid) ==
    LET numeric == { r \in BagToSet(feedback_df) : r.receiver_id = eid /\ r.rating.num }
        n       == CountIn(feedback_df, numeric)
        total   == SumRatings(feedback_df, numeric)
    IN IF n > 0
       THEN IF 10 * total < 25 * n
            THEN <<[risk |-> 20, factor |-> "Poor feedback rating"]>>
            ELSE IF 10 * total < 35 * n
                 THEN <<[risk |-> 10, factor |-> "Below-average feedback"]>>
                 ELSE <<>>
       ELSE <<>>

\* variant: a task due today is overdue
IsOverdue_DueToday(r) == r.status # "Completed" /\ r.due_date # NaT /\ r.due_date <= today

IsOverdue(r) == r.status # "Completed" /\ r.due_date # NaT /\ r.due_date < today

TaskFactors(eid) ==
    LET overdue == CountIn(tasks_df, { r \in BagToSet(tasks_df) : r.emp_id = eid /\ IsOverdue(r) })
    IN IF overdue >= 3
       THEN <<[risk |-> 10, factor |-> "overdue tasks"]>>
       ELSE <<>>

\* the (risk, factor) pairs of one non-resigned employee, in the order added
RiskFactors(att, eid) ==
    AttendanceFactors(att, eid) \o MoodFactors(eid) \o FeedbackFactors(eid) \o TaskFactors(eid)

\* the risk accumulated by a sequence of (risk, factor) pairs
RiskSum(f) == SumSeq([i \in DOMAIN f |-> f[i].risk])

\* variant: the cap is 100
CapRisk_At100(risk) == Min(risk, 100)

\* risk = min(risk, 95)
CapRisk(risk) == Min(risk, 95)

\* variant: the boundaries belong to the lower band
RiskLevel_Strict(risk) ==
    IF risk > 70 THEN "High Risk"
    ELSE IF risk > 40 THEN "Medium Risk"
    ELSE "Low Risk"

RiskLevel(risk) ==
    IF risk >= 70 THEN "High Risk"
    ELSE IF risk >= 40 THEN "Medium Risk"
    ELSE "Low Risk"

\* variant: the penalties for missing data are added without a factor
RiskRow_NoDataUnlisted(att, emp) ==
    IF emp.Status = "Resigned"
    THEN [Emp_ID |-> emp.Emp_ID, Status |-> emp.Status, Risk_Score |-> 100,
          Risk_Level |-> "Resigned",
          Key_Factors |-> <<"Employee has already resigned">>]
    ELSE LET f      == RiskFactors(att, emp.Emp_ID)
             risk   == CapRisk(RiskSum(f))
             listed == SelectSeq(f, LAMBDA x : x.risk # 5)
         IN [Emp_ID |-> emp.Emp_ID, Status |-> emp.Status, Risk_Score |-> risk,
             Risk_Level |-> RiskLevel(risk),
             Key_Factors |-> IF listed # <<>> THEN [i \in DOMAIN listed |-> listed[i].factor]
                             ELSE <<"No significant risk factors">>]

\* variant: a Resigned employee is scored like any other
RiskRow_NoShortCircuit(att, emp) ==
    LET f    == RiskFactors(att, emp.Emp_ID)
        risk == CapRisk(RiskSum(f))
    IN [Emp_ID |-> emp.Emp_ID, Status |-> emp.Status, Risk_Score |-> risk,
        Risk_Level |-> RiskLevel(risk),
        Key_Factors |-> IF f # <<>> THEN [i \in DOMAIN f |-> f[i].factor]
                        ELSE <<"No significant risk factors">>]

\* the result row of one employee, scored against the attendance table att
RiskRow(att, emp) ==
    IF emp.Status = "Resigned"
    THEN [Emp_ID |-> emp.Emp_ID, Status |-> emp.Status, Risk_Score |-> 100,
          Risk_Level |-> "Resigned",
          Key_Factors |-> <<"Employee has already resigned">>]
    ELSE LET f    == RiskFactors(att, emp.Emp_ID)
             risk == CapRisk(RiskSum(f))
         IN [Emp_ID |-> emp.Emp_ID, Status |-> emp.Status, Risk_Score |-> risk,
             Risk_Level |-> RiskLevel(risk),
             Key_Factors |-> IF f # <<>> THEN [i \in DOMAIN f |-> f[i].factor]
                             ELSE <<"No significant risk factors">>]

\* the loop raises as soon as one employee's row cannot be computed
RiskRaises == \E i \in DOMAIN emp_df :
                 emp_df[i].Status # "Resigned" /\ MoodRaises(emp_df[i].Emp_ID)

\* sort_values("Risk_Score", ascending=False): rows of equal score keep their order
RECURSIVE SortByRisk(_)
SortByRisk(rows) ==
    IF rows = <<>> THEN <<>>
    ELSE LET r      == rows[Len(rows)]
             sorted == SortByRisk(SubSeq(rows, 1, Len(rows) - 1))
             before == SelectSeq(sorted, LAMBDA x : x.Risk_Score >= r.Risk_Score)
             after  == SelectSeq(sorted, LAMBDA x : x.Risk_Score < r.Risk_Score)
         IN before \o <<r>> \o after

compute_attrition_risk == SortByRisk([i \in DOMAIN emp_df |-> RiskRow(att_df, emp_df[i])])

\* build_attrition_prompt: risk_df[risk_df["Risk_Level"] == High Risk].head(10)
high_risk(df) ==
    LET high == SelectSeq(df, LAMBDA r : r.Risk_Level = "High Risk")
    IN SubSeq(high, 1, Min(10, Len(high)))

----------------------------------------------------------------------------
(* pages/10_Projects.py: scoring helpers and the health_rows loop *)

ProjectStatuses == {"Active", "On Hold", "Completed", "Cancelled"}

\* attendance statuses of the project health model
HealthAttStatuses == {"Present", "Absent", "Remote"}

\* (remarks, mood_score) of the mood rows of the project health model
HealthMoodKinds == { <<(<<"Happy">>), NumCell(22)>>, <<(<<"Neutral">>), NumCell(15)>>,
                     <<(<<"Stressed">>), NumCell(8)>> }

\* (progress, due_date) of the project rows
ProjectKinds == { <<0, Today - 1>>, <<50, Today + 3>>, <<100, Today + 7>>, <<50, Today>>,
                  <<100, Today + 6>>, <<0, NaT>> }

\* variant: the thresholds belong to the upper band
attendance_score_Inclusive(emp_id) ==
    IF att_df = EmptyBag THEN 0
    ELSE LET total   == CountIn(att_df, { r \in BagToSet(att_df) : r.emp_id = emp_id })
             present == CountIn(att_df, { r \in BagToSet(att_df) : r.emp_id = emp_id /\ Lower(r.status) = "present" })
         IN IF total = 0 THEN 5
            ELSE IF 10 * present >= 8 * total THEN 20
            ELSE IF 10 * present >= 5 * total THEN 10
            ELSE 0

attendance_score(emp_id) ==
    IF att_df = EmptyBag THEN 0
    ELSE LET total   == CountIn(att_df, { r \in BagToSet(att_df) : r.emp_id = emp_id })
             present == CountIn(att_df, { r \in BagToSet(att_df) : r.emp_id = emp_id /\ Lower(r.status) = "present" })
         IN IF total = 0 THEN 5
            ELSE IF 10 * present > 8 * total THEN 20
            ELSE IF 10 * present > 5 * total THEN 10
            ELSE 0

\* emp_mood.sort_values("log_date").iloc[-1]: the latest row, the last one
\* in table order among the rows of the latest date
LastByLogDate(emp_mood) ==
    LET i == CHOOSE k \in DOMAIN emp_mood :
                 /\ \A j \in DOMAIN emp_mood : emp_mood[j].log_date <= emp_mood[k].log_date
                 /\ \A j \in DOMAIN emp_mood :
                        j > k => emp_mood[j].log_date < emp_mood[k].log_date
    IN emp_mood[i]

mood_score(emp_id) ==
    IF mood_df = <<>> THEN 0
    ELSE LET emp_mood == EmpMood(emp_id)
         IN IF emp_mood = <<>> THEN 5
            ELSE LET remark == LastByLogDate(emp_mood).remarks
                 IN IF Contains(remark, "Happy") THEN 20
                    ELSE IF Contains(remark, "Neutral") THEN 10
                    ELSE 0

\* variant: a due date that cannot be parsed counts as due today
days_to_due_Zero(due) == IF due = NaT THEN 0 ELSE due - today

\* a due date that cannot be parsed gives 999
days_to_due(due) == IF due = NaT THEN 999 ELSE due - today

\* variant: a project due today is treated as overdue
DeadlineBonus_TodayOverdue(days_left) ==
    IF days_left <= 0 THEN -20
    ELSE IF days_left < 7 THEN -10
    ELSE 0

DeadlineBonus(days_left) ==
    IF days_left < 0 THEN -20
    ELSE IF days_left < 7 THEN -10
    ELSE 0

\* variant: no lower clamp
ClampHealth_NoFloor(raw) == Min(100, raw)

\* min(100, max(0, ...))
ClampHealth(raw) == Min(100, Max(0, raw))

\* variant: the deadline adjustment is left out
RawHealth_NoDeadline(row) ==
    row.progress + mood_score(row.owner_emp_id) + attendance_score(row.owner_emp_id)

RawHealth(row) ==
    row.progress + mood_score(row.owner_emp_id) + attendance_score(row.owner_emp_id)
    + DeadlineBonus(days_to_due(row.due_date))

\* variant: the score bands are tried before the Cancelled status
HealthStatus_ScoreFirst(status, health_score) ==
    IF status = "Completed" THEN "Completed"
    ELSE IF health_score >= 70 THEN "Healthy"
    ELSE IF health_score >= 40 THEN "At Risk"
    ELSE IF status = "Cancelled" THEN "Cancelled"
    ELSE "Critical"

HealthStatus(status, health_score) ==
    IF status = "Completed" THEN "Completed"
    ELSE IF status = "Cancelled" THEN "Cancelled"
    ELSE IF health_score >= 70 THEN "Healthy"
    ELSE IF health_score >= 40 THEN "At Risk"
    ELSE "Critical"

HealthRow(row) ==
    LET health_score == ClampHealth(RawHealth(row))
    IN [project_id    |-> row.project_id,
        owner_emp_id  |-> row.owner_emp_id,
        status        |-> row.status,
        progress      |-> row.progress,
        health_score  |-> health_score,
        health_status |-> HealthStatus(row.status, health_score),
        due_date      |-> row.due_date,
        days_left     |-> days_to_due(row.due_date)]

health_rows == [i \in DOMAIN project_df |-> HealthRow(project_df[i])]

\* len(health_df[health_df["Days Left"] < 0]) on the result table df
overdue_p(df) == Len(SelectSeq(df, LAMBDA h : h.days_left < 0))

----------------------------------------------------------------------------
(* pages/8_Mood_Analytics.py: score_to_label, and the mood survey *)

\* a mood_score cell: an integer, a float (v in tenths), NaN/NULL, or text
IntCell(n) == [kind |-> "int", v |-> n]
FloatCell(tenths) == [kind |-> "float", v |-> tenths]
NanCell == [kind |-> "nan", v |-> 0]
TextCell == [kind |-> "text", v |-> 0]

\* int(score): truncates a float toward zero, raises on NaN, None and text
PyInt(cell) ==
    CASE cell.kind = "int"   -> [ok |-> TRUE, v |-> cell.v]
      [] cell.kind = "float" -> [ok |-> TRUE,
                                 v  |-> IF cell.v >= 0 THEN cell.v \div 10
                                        ELSE -((-cell.v) \div 10)]
      [] OTHER               -> [ok |-> FALSE, v |-> 0]

\* variant: the boundaries belong to the lower band
score_to_label_Strict(score) ==
    LET s == PyInt(score)
    IN IF s.ok
       THEN IF s.v > 20 THEN "Happy"
            ELSE IF s.v > 13 THEN "Neutral"
            ELSE "Stressed"
       ELSE "Neutral"

\* variant: a score that is not a number is labelled Stressed
score_to_label_BadIsStressed(score) ==
    LET s == PyInt(score)
    IN IF s.ok
       THEN IF s.v >= 20 THEN "Happy"
            ELSE IF s.v >= 13 THEN "Neutral"
            ELSE "Stressed"
       ELSE "Stressed"

score_to_label(score) ==
    LET s == PyInt(score)
    IN IF s.ok
       THEN IF s.v >= 20 THEN "Happy"
            ELSE IF s.v >= 13 THEN "Neutral"
            ELSE "Stressed"
       ELSE "Neutral"

\* composite of a five-question survey: the sum of the answers
Composite(a) == a[1] + a[2] + a[3] + a[4] + a[5]

SurveyAnswers == [1..5 -> 1..5]

\* the cell score_to_label meets for a mood_score value of the mood_logs table
AsScoreCell(c) == IF c.num THEN IntCell(c.v) ELSE NanCell

\* cells found in a stored mood_score column
ScoreCells ==
    { IntCell(n) : n \in -2..32 }
    \cup { FloatCell(t) : t \in {-5, 49, 50, 125, 129, 130, 199, 200, 255} }
    \cup { NanCell, TextCell }

----------------------------------------------------------------------------
(* pages/15_AI_Summary.py: tenure metrics of the resigned employees *)

\* pd.to_datetime(errors="coerce"): the dates of an employee record are day
\* numbers, NaT when the text is empty or cannot be parsed
DatesParse(emp) == emp.Join_Date # NaT /\ emp.Resign_Date # NaT

\* (Resign_Date_dt - Join_Date_dt).dt.days, defined when both dates parse
Tenure_Days(emp) == emp.Resign_Date - emp.Join_Date

resigned_full == SelectSeq(emp_df, LAMBDA e : e.Status = "Resigned")

\* variant: a span of zero days counts
valid_tenure_Inclusive ==
    SelectSeq(resigned_full, LAMBDA e : DatesParse(e) /\ Tenure_Days(e) >= 0)

\* resigned_full[resigned_full["Tenure_Days"] > 0]: NaN > 0 is False
valid_tenure ==
    SelectSeq(resigned_full, LAMBDA e : DatesParse(e) /\ Tenure_Days(e) > 0)

RECURSIVE MinSeq(_)
MinSeq(s) == IF Len(s) = 1 THEN s[1] ELSE Min(s[1], MinSeq(Tail(s)))

RECURSIVE MaxSeq(_)
MaxSeq(s) == IF Len(s) = 1 THEN s[1] ELSE Max(s[1], MaxSeq(Tail(s)))

\* the section was not reached by a page run
NoTenure == [run |-> "idle", avg |-> 0, min |-> 0, max |-> 0]

\* the three day metrics int(avg_tenure), int(min_tenure), int(max_tenure);
\* none when no resigned employee has a valid span
tenure_metrics ==
    LET spans == [i \in DOMAIN valid_tenure |-> Tenure_Days(valid_tenure[i])]
    IN IF spans = <<>>
       THEN [run |-> "none", avg |-> 0, min |-> 0, max |-> 0]
       ELSE [run |-> "shown",
             avg |-> SumSeq(spans) \div Len(spans),
             min |-> MinSeq(spans),
             max |-> MaxSeq(spans)]

----------------------------------------------------------------------------
(* utils/auth.py: login, require_login, logout_user; the access gates of   *)
(* app.py, pages/10_Projects.py and pages/15_AI_Summary.py                 *)

Roles == {"Admin", "Manager", "HR", "Employee"}

\* hashlib.sha256(...).hexdigest(): injective on the passwords of the model
hash_password(password) == <<"sha256", password>>

\* the user create_default_admin inserts into an empty users table
DefaultAdmin ==
    [id |-> 1, username |-> "admin", password |-> hash_password("admin123"), role |-> "Admin"]

\* users tables: the default admin and a second user of any role
UserTables ==
    { {DefaultAdmin,
       [id |-> 2, username |-> "asha", password |-> hash_password("pass"), role |-> r]} :
          r \in Roles }

\* what is typed into the login form
Usernames == {"admin", "asha", "ghost"}
Passwords == {"admin123", "pass"}

\* st.session_state after clear()
EmptySession == [k \in {} |-> TRUE]

\* st.session_state.get(key, default)
Get(state, key, default) == IF key \in DOMAIN state THEN state[key] ELSE default

\* login was not called yet
NoLogin == [username |-> "", password |-> "", db_up |-> TRUE, ok |-> FALSE, msg |-> ""]

\* variant: the session is marked logged in before the password is compared
login_EarlyFlag(username, password, db_up) ==
    LET found == { u \in users : u.username = username }
    IN IF ~db_up
       THEN [ok |-> FALSE, msg |-> "Database error", state |-> session]
       ELSE IF found = {}
       THEN [ok |-> FALSE, msg |-> "User not found", state |-> session]
       ELSE LET user == CHOOSE u \in found : TRUE
            IN IF hash_password(password) # user.password
               THEN [ok |-> FALSE, msg |-> "Invalid password",
                     state |-> [logged_in |-> TRUE]]
               ELSE [ok |-> TRUE, msg |-> "Login successful",
                     state |-> [logged_in |-> TRUE, user |-> user.username,
                                role |-> user.role, user_id |-> user.id]]

\* login: the pair it returns and the session it leaves; db_up is FALSE
\* when get_user_by_username raises
login(username, password, db_up) ==
    LET found == { u \in users : u.username = username }
    IN IF ~db_up
       THEN [ok |-> FALSE, msg |-> "Database error", state |-> session]
       ELSE IF found = {}
       THEN [ok |-> FALSE, msg |-> "User not found", state |-> session]
       ELSE LET user == CHOOSE u \in found : TRUE
            IN IF hash_password(password) # user.password
               THEN [ok |-> FALSE, msg |-> "Invalid password", state |-> session]
               ELSE [ok |-> TRUE, msg |-> "Login successful",
                     state |-> [logged_in |-> TRUE, user |-> user.username,
                                role |-> user.role, user_id |-> user.id]]

Pages == {"Home", "Projects", "AI_Summary", "Mood_Tracker"}

\* the roles_allowed argument of the page's require_login call, {} for none
roles_allowed(page) == IF page = "Projects" THEN {"Admin", "Manager", "HR"} ELSE {}

\* variant: the role list is not looked at
require_login_NoRoles(state, allowed) == Get(state, "logged_in", FALSE)

\* require_login: TRUE iff the script goes on past it
require_login(state, allowed) ==
    /\ Get(state, "logged_in", FALSE)
    /\ allowed # {} => Get(state, "role", "") \in allowed

\* pages/15_AI_Summary.py lines 33-36: the role check of the page itself
summary_role_gate(state) == Get(state, "role", "Employee") \in {"Admin", "HR", "Manager"}

\* TRUE iff a run of the page's script under the session reaches its body
body_runs(page, state) ==
    /\ require_login(state, roles_allowed(page))
    /\ page = "AI_Summary" => summary_role_gate(state)

NoVisit == [page |-> "", body |-> FALSE]

----------------------------------------------------------------------------
(* Operations on the tables (utils/database.py and the CRUD pages).  A     *)
(* write happens in another page run than the one that scored, and a       *)
(* result table does not outlive its page run.  cap bounds the rows of     *)
(* all tables together, max the rows of the table written.                *)

ResetOutputs ==
    /\ risk_run' = "idle" /\ risk_df' = <<>>
    /\ health_run' = "idle" /\ health_df' = <<>>

\* no page has run yet
NoRun == <<"idle", <<>>>>

\* the tables changed in rows of the employees ids: the outcome of the last
\* attrition run is kept together with the employees whose rows changed
\* since; the outcome of a health run is kept for unchanged tables only
KeepOutcome(ids) ==
    /\ history' = history
    /\ IF history
       THEN /\ risk_prev' = (IF risk_run # "idle" THEN <<risk_run, risk_df>> ELSE risk_prev)
            /\ touched' = (IF risk_run # "idle" THEN ids ELSE touched \cup ids)
            /\ health_prev' = (IF ids = {} /\ health_run # "idle"
                               THEN <<health_run, health_df>>
                               ELSE IF ids = {} THEN health_prev ELSE NoRun)
       ELSE UNCHANGED <<risk_prev, touched, health_prev>>

AddAttendance(max, cap, emp_id, status) ==
    /\ BagCardinality(att_df) < max
    /\ TotalRows < cap
    /\ att_df' = att_df (+) SetToBag({[emp_id |-> emp_id, status |-> status]})
    /\ ResetOutputs
    /\ KeepOutcome({emp_id})
    /\ UNCHANGED <<emp_df, mood_df, mood_score_col, feedback_df, tasks_df, project_df, today>>
    /\ UNCHANGED <<labelVars, tenureOut, authVars>>

\* a table without a mood_score column stores no score
AddMood(max, cap, emp_id, kind) ==
    /\ Len(mood_df) < max
    /\ TotalRows < cap
    /\ mood_df' = Append(mood_df,
                         [emp_id     |-> emp_id,
                          remarks    |-> kind[1],
                          mood_score |-> IF mood_score_col THEN kind[2] ELSE BadCell,
                          log_date   |-> today])
    /\ ResetOutputs
    /\ KeepOutcome({emp_id})
    /\ UNCHANGED <<emp_df, att_df, mood_score_col, feedback_df, tasks_df, project_df, today>>
    /\ UNCHANGED <<labelVars, tenureOut, authVars>>

AddFeedback(max, cap, receiver_id, rating) ==
    /\ BagCardinality(feedback_df) < max
    /\ TotalRows < cap
    /\ feedback_df' = feedback_df (+) SetToBag({[receiver_id |-> receiver_id, rating |-> rating]})
    /\ ResetOutputs
    /\ KeepOutcome({receiver_id})
    /\ UNCHANGED <<emp_df, att_df, mood_df, mood_score_col, tasks_df, project_df, today>>
    /\ UNCHANGED <<labelVars, tenureOut, authVars>>

AddTask(max, cap, emp_id, kind) ==
    /\ BagCardinality(tasks_df) < max
    /\ TotalRows < cap
    /\ tasks_df' = tasks_df (+) SetToBag({[emp_id |-> emp_id, status |-> kind[1],
                                           due_date |-> kind[2]]})
    /\ ResetOutputs
    /\ KeepOutcome({emp_id})
    /\ UNCHANGED <<emp_df, att_df, mood_df, mood_score_col, feedback_df, project_df, today>>
    /\ UNCHANGED <<labelVars, tenureOut, authVars>>

AddProject(max, cap, owner_id, status, kind) ==
    /\ Len(project_df) < max
    /\ TotalRows < cap
    /\ project_df' = Append(project_df,
                            [project_id   |-> Len(project_df) + 1,
                             owner_emp_id |-> owner_id,
                             status       |-> status,
                             progress     |-> kind[1],
                             due_date     |-> kind[2]])
    /\ ResetOutputs
    /\ KeepOutcome({owner_id})
    /\ UNCHANGED <<emp_df, att_df, mood_df, mood_score_col, feedback_df, tasks_df, today>>
    /\ UNCHANGED <<labelVars, tenureOut, authVars>>

\* variant: the results list outlives the run, a later run appends to it
RunAttritionPage_SharedResults ==
    /\ emp_df # <<>>
    /\ risk_run = "idle"
    /\ IF RiskRaises
       THEN risk_run' = "raised" /\ risk_df' = <<>>
       ELSE /\ risk_run' = "done"
            /\ risk_df' = SortByRisk(risk_prev[2]
                                     \o [i \in DOMAIN emp_df |-> RiskRow(att_df, emp_df[i])])
    /\ UNCHANGED <<dbVars, healthOut, labelVars, histVars, tenureOut, authVars>>

\* a run of pages/15_AI_Summary.py up to the risk table; the page stops
\* before scoring when there is no employee
RunAttritionPage ==
    /\ emp_df # <<>>
    /\ risk_run = "idle"
    /\ IF RiskRaises
       THEN risk_run' = "raised" /\ risk_df' = <<>>
       ELSE risk_run' = "done" /\ risk_df' = compute_attrition_risk
    /\ UNCHANGED <<dbVars, healthOut, labelVars, histVars, tenureOut, authVars>>

\* a run of pages/10_Projects.py up to health_df; the page stops before
\* scoring when there is no project
RunProjectsPage ==
    /\ project_df # <<>>
    /\ health_run = "idle"
    /\ health_run' = "done"
    /\ health_df' = health_rows
    /\ UNCHANGED <<dbVars, riskOut, labelVars, histVars, tenureOut, authVars>>

\* the page script runs again on unchanged tables (any interaction with a
\* Streamlit page runs its script from the top); the outcome of the run
\* before is kept
ReloadPage ==
    /\ history
    /\ risk_run # "idle" \/ health_run # "idle"
    /\ KeepOutcome({})
    /\ ResetOutputs
    /\ UNCHANGED <<dbVars, labelVars, tenureOut, authVars>>

\* a five-question survey is answered and its composite stored
SubmitSurvey(a) ==
    /\ mood_label # ""
    /\ answers' = a
    /\ score_cell' = IntCell(Composite(a))
    /\ mood_label' = ""
    /\ UNCHANGED <<dbVars, riskOut, healthOut, histVars, tenureOut, authVars>>

\* the mood analytics page meets the next stored mood_score cell
ReadScore(cell) ==
    /\ mood_label # ""
    /\ answers' = <<>>
    /\ score_cell' = cell
    /\ mood_label' = ""
    /\ UNCHANGED <<dbVars, riskOut, healthOut, histVars, tenureOut, authVars>>

\* mood_df["mood_score"].apply(score_to_label)
ApplyLabel ==
    /\ mood_label = ""
    /\ mood_label' = score_to_label(score_cell)
    /\ UNCHANGED <<answers, score_cell, dbVars, riskOut, healthOut, histVars, tenureOut, authVars>>

\* db.add_employee: the record gets the next Emp_ID; kind is its
\* (Status, Join_Date, Resign_Date)
AddEmployee(max, kind) ==
    /\ Len(emp_df) < max
    /\ emp_df' = Append(emp_df,
                        [Emp_ID      |-> Len(emp_df) + 1,
                         Status      |-> kind[1],
                         Join_Date   |-> kind[2],
                         Resign_Date |-> kind[3]])
    /\ ResetOutputs
    /\ tenure' = NoTenure
    /\ KeepOutcome({Len(emp_df) + 1})
    /\ UNCHANGED <<att_df, mood_df, mood_score_col, feedback_df, tasks_df, project_df, today>>
    /\ UNCHANGED <<labelVars, authVars>>

\* time passes: date.today() and the timestamps of later entries move on
AdvanceClock(max) ==
    /\ today - Today < max
    /\ today' = today + 1
    /\ ResetOutputs
    /\ KeepOutcome(EmpIds)
    /\ UNCHANGED <<emp_df, att_df, mood_df, mood_score_col, feedback_df, tasks_df, project_df>>
    /\ UNCHANGED <<labelVars, tenureOut, authVars>>

\* a whole run of pages/15_AI_Summary.py: the risk table, then the section
\* on the resigned employees, which a run that raised does not reach
RunSummaryPage ==
    /\ emp_df # <<>>
    /\ risk_run = "idle"
    /\ IF RiskRaises
       THEN risk_run' = "raised" /\ risk_df' = <<>> /\ tenure' = NoTenure
       ELSE risk_run' = "done" /\ risk_df' = compute_attrition_risk
            /\ tenure' = tenure_metrics
    /\ UNCHANGED <<dbVars, healthOut, labelVars, histVars, authVars>>

\* the script of a page runs under the session; generate is TRUE when the
\* report button of pages/15 is pressed, which stores the report in the
\* session
VisitPage(page, generate) ==
    /\ visit' = [page |-> page, body |-> body_runs(page, session)]
    /\ session' = IF page = "AI_Summary" /\ body_runs(page, session) /\ generate
                  THEN [k \in DOMAIN session \cup {"ai_attrition_report"} |->
                            IF k = "ai_attrition_report" THEN "report" ELSE session[k]]
                  ELSE session
    /\ UNCHANGED <<users, login_result>>
    /\ UNCHANGED <<dbVars, riskOut, healthOut, labelVars, histVars, tenureOut>>

\* the login form require_login shows on the page last run is submitted; a
\* successful login runs the page again
SubmitLogin(username, password, db_up) ==
    /\ visit # NoVisit
    /\ ~Get(session, "logged_in", FALSE)
    /\ LET r == login(username, password, db_up)
       IN /\ login_result' = [username |-> username, password |-> password,
                               db_up |-> db_up, ok |-> r.ok, msg |-> r.msg]
          /\ session' = r.state
          /\ visit' = [page |-> visit.page, body |-> r.ok /\ body_runs(visit.page, r.state)]
    /\ UNCHANGED users
    /\ UNCHANGED <<dbVars, riskOut, healthOut, labelVars, histVars, tenureOut>>

\* logout_user: the Logout button, which a page shows once require_login
\* has let its script pass, is pressed; the page runs again
Logout ==
    /\ visit # NoVisit
    /\ require_login(session, roles_allowed(visit.page))
    /\ session' = EmptySession
    /\ visit' = [page |-> visit.page, body |-> body_runs(visit.page, EmptySession)]
    /\ UNCHANGED <<users, login_result>>
    /\ UNCHANGED <<dbVars, riskOut, healthOut, labelVars, histVars, tenureOut>>

----------------------------------------------------------------------------
(* Specifications *)

\* the employees tables of MaxEmps employees, numbered in insertion order
EmployeeTables ==
    { [i \in 1..MaxEmps |-> [Emp_ID |-> i, Status |-> st[i]]] :
          st \in [1..MaxEmps -> EmpStatuses] }

\* the employees table of MaxEmps Active employees
ActiveEmployees == [i \in 1..MaxEmps |-> [Emp_ID |-> i, Status |-> "Active"]]

InitTables ==
    /\ att_df = EmptyBag
    /\ mood_df = <<>>
    /\ feedback_df = EmptyBag
    /\ tasks_df = EmptyBag
    /\ project_df = <<>>
    /\ today = Today
    /\ risk_run = "idle" /\ risk_df = <<>>
    /\ health_run = "idle" /\ health_df = <<>>
    /\ answers = <<>> /\ score_cell = NanCell /\ mood_label = ""
    /\ risk_prev = NoRun /\ touched = {} /\ health_prev = NoRun
    /\ tenure = NoTenure
    /\ session = EmptySession /\ login_result = NoLogin /\ visit = NoVisit

\* attrition scoring
Init ==
    /\ InitTables
    /\ emp_df \in EmployeeTables /\ mood_score_col \in BOOLEAN
    /\ history = FALSE /\ users = {DefaultAdmin}

Next ==
    \/ \E e \in EmpIds, s \in AttStatuses : AddAttendance(MaxAtt, MaxRows, e, s)
    \/ \E e \in EmpIds, k \in MoodKinds : AddMood(MaxMood, MaxRows, e, k)
    \/ \E e \in EmpIds, r \in FbRatings : AddFeedback(MaxFb, MaxRows, e, r)
    \/ \E e \in EmpIds, k \in TaskKinds : AddTask(MaxTasks, MaxRows, e, k)
    \/ RunAttritionPage

Spec == Init /\ [][Next]_vars

\* project health scoring
InitHealth ==
    /\ InitTables
    /\ emp_df = ActiveEmployees /\ mood_score_col = TRUE
    /\ history = FALSE /\ users = {DefaultAdmin}

NextHealth ==
    \/ \E e \in EmpIds, s \in HealthAttStatuses : AddAttendance(MaxAtt, MaxHealthRows, e, s)
    \/ \E e \in EmpIds, k \in HealthMoodKinds : AddMood(MaxMood, MaxHealthRows, e, k)
    \/ \E e \in EmpIds, s \in ProjectStatuses, k \in ProjectKinds : AddProject(MaxProjects, MaxHealthRows, e, s, k)
    \/ RunProjectsPage

SpecHealth == InitHealth /\ [][NextHealth]_vars

\* repeated runs of both scoring pages, the outcome of the previous run kept
RunProjectStatuses == {"Active"}
RunProjectKinds == { <<50, Today + 3>> }

InitRuns ==
    /\ InitTables
    /\ emp_df \in EmployeeTables /\ mood_score_col \in BOOLEAN
    /\ history = TRUE /\ users = {DefaultAdmin}

NextRuns ==
    \/ \E e \in EmpIds, s \in AttStatuses : AddAttendance(MaxRunRows, MaxRunRows, e, s)
    \/ \E e \in EmpIds, k \in MoodKinds : AddMood(MaxMood, MaxRunRows, e, k)
    \/ \E e \in EmpIds, r \in FbRatings : AddFeedback(MaxFb, MaxRunRows, e, r)
    \/ \E e \in EmpIds, k \in TaskKinds : AddTask(MaxRunRows, MaxRunRows, e, k)
    \/ \E e \in EmpIds, s \in RunProjectStatuses, k \in RunProjectKinds : AddProject(MaxProjects, MaxRunRows, e, s, k)
    \/ RunAttritionPage
    \/ RunProjectsPage
    \/ ReloadPage

SpecRuns == InitRuns /\ [][NextRuns]_vars

\* attrition scoring of an arbitrary employees table: the records in any
\* order, a record possibly without identifier
EmployeeRecords == [Emp_ID : EmpIds \cup {NoId}, Status : EmpStatuses]

RecordTables ==
    { t \in UNION { [1..n -> EmployeeRecords] : n \in 1..MaxEmps } :
          \A i, j \in DOMAIN t : i # j => t[i].Emp_ID # t[j].Emp_ID }

InitRecords ==
    /\ InitTables
    /\ emp_df \in RecordTables /\ mood_score_col \in BOOLEAN
    /\ history = FALSE /\ users = {DefaultAdmin}

NextRecords ==
    \/ \E e \in EmpIds, s \in AttStatuses : AddAttendance(MaxAtt, MaxRecordRows, e, s)
    \/ \E e \in EmpIds, k \in MoodKinds : AddMood(MaxMood, MaxRecordRows, e, k)
    \/ \E e \in EmpIds, r \in FbRatings : AddFeedback(MaxFb, MaxRecordRows, e, r)
    \/ \E e \in EmpIds, k \in TaskKinds : AddTask(MaxTasks, MaxRecordRows, e, k)
    \/ RunAttritionPage

SpecRecords == InitRecords /\ [][NextRecords]_vars

\* the attendance component: (emp_id, status) of the attendance rows, the
\* statuses of the attendance page and a lower-case one of a CSV import
ComponentAttKinds ==
    { <<1, "Present">>, <<1, "Absent">>, <<1, "Half-day">>, <<1, "Remote">>,
      <<1, "absent">>, <<2, "Absent">> }

InitAtt ==
    /\ InitTables
    /\ emp_df = ActiveEmployees /\ mood_score_col = TRUE
    /\ history = FALSE /\ users = {DefaultAdmin}

NextAtt ==
    \/ \E k \in ComponentAttKinds : AddAttendance(MaxAttRows, MaxAttRows, k[1], k[2])
    \/ RunAttritionPage

SpecAtt == InitAtt /\ [][NextAtt]_vars

\* the mood component: (emp_id, remarks, mood_score) of the mood rows.  A
\* survey row carries a composite and its label; a row logged by the mood
\* tracker page carries the free text the user typed and no score
ComponentMoodKinds ==
    { <<1, (<<"Stressed">>), NumCell(8)>>, <<1, (<<"Stressed">>), NumCell(12)>>,
      <<1, (<<"Happy">>), NumCell(22)>>,
      <<1, (<<>>), BadCell>>, <<1, (<<"Stressed">>), BadCell>>,
      <<2, (<<"Stressed">>), NumCell(8)>> }

InitMood ==
    /\ InitTables
    /\ emp_df = ActiveEmployees /\ mood_score_col \in BOOLEAN
    /\ history = FALSE /\ users = {DefaultAdmin}

NextMood ==
    \/ \E k \in ComponentMoodKinds : AddMood(MaxMoodRows, MaxMoodRows, k[1], <<k[2], k[3]>>)
    \/ RunAttritionPage

SpecMood == InitMood /\ [][NextMood]_vars

\* the feedback component: (receiver_id, rating) of the feedback rows, the
\* ratings of the feedback page's slider
ComponentFbKinds ==
    { <<1, NumCell(n)>> : n \in 1..5 } \cup { <<2, NumCell(1)>> }

InitFb ==
    /\ InitTables
    /\ emp_df = ActiveEmployees /\ mood_score_col = TRUE
    /\ history = FALSE /\ users = {DefaultAdmin}

NextFb ==
    \/ \E k \in ComponentFbKinds : AddFeedback(MaxFbRows, MaxFbRows, k[1], k[2])
    \/ RunAttritionPage

SpecFb == InitFb /\ [][NextFb]_vars

\* the task component: (emp_id, status, due_date) of the task rows, due
\* yesterday, today, or on a date that cannot be parsed
ComponentTaskKinds ==
    { <<1, st, due>> : st \in {"Pending", "In-Progress", "Completed"},
                       due \in {Today - 1, Today, NaT} }
    \cup { <<2, "Pending", Today - 1>> }

InitTask ==
    /\ InitTables
    /\ emp_df = ActiveEmployees /\ mood_score_col = TRUE
    /\ history = FALSE /\ users = {DefaultAdmin}

NextTask ==
    \/ \E k \in ComponentTaskKinds : AddTask(MaxTaskRows, MaxTaskRows, k[1], <<k[2], k[3]>>)
    \/ RunAttritionPage

SpecTask == InitTask /\ [][NextTask]_vars

\* mood labelling
InitLabel ==
    /\ InitTables
    /\ emp_df = ActiveEmployees /\ mood_score_col = TRUE
    /\ history = FALSE /\ users = {DefaultAdmin}

NextLabel ==
    \/ \E a \in SurveyAnswers : SubmitSurvey(a)
    \/ \E c \in ScoreCells : ReadScore(c)
    \/ ApplyLabel

SpecLabel == InitLabel /\ [][NextLabel]_vars

\* values that are not numbers: (emp_id, remarks, mood_score) of the mood
\* rows and (receiver_id, rating) of the feedback rows
CoerceMoodKinds ==
    { <<1, (<<>>), NumCell(12)>>, <<1, (<<>>), NumCell(4)>>, <<1, (<<>>), BadCell>>,
      <<2, (<<>>), NumCell(4)>> }

CoerceFbKinds ==
    { <<1, NumCell(5)>>, <<1, NumCell(1)>>, <<1, BadCell>>, <<2, NumCell(1)>> }

InitCoerce ==
    /\ InitTables
    /\ emp_df = ActiveEmployees /\ mood_score_col \in BOOLEAN
    /\ history = FALSE /\ users = {DefaultAdmin}

NextCoerce ==
    \/ \E k \in CoerceMoodKinds : AddMood(MaxCoerceRows, MaxCoerceRows, k[1], <<k[2], k[3]>>)
    \/ \E k \in CoerceFbKinds : AddFeedback(MaxCoerceRows, MaxCoerceRows, k[1], k[2])
    \/ RunAttritionPage

SpecCoerce == InitCoerce /\ [][NextCoerce]_vars

\* the latest mood entry of a project owner: (emp_id, remarks, mood_score)
\* of the mood rows, logged while the clock advances
LatestMoodKinds ==
    { <<1, (<<"Happy">>), NumCell(22)>>, <<1, (<<"Neutral">>), NumCell(15)>>,
      <<1, (<<"Stressed">>), NumCell(8)>>, <<2, (<<"Stressed">>), NumCell(8)>> }

LatestProjectKinds == { <<50, Today + 9>> }

InitLatest ==
    /\ InitTables
    /\ emp_df = ActiveEmployees /\ mood_score_col = TRUE
    /\ history = FALSE /\ users = {DefaultAdmin}

NextLatest ==
    \/ \E k \in LatestMoodKinds : AddMood(MaxLatestMood, MaxLatestMood + MaxProjects, k[1], <<k[2], k[3]>>)
    \/ \E e \in EmpIds, k \in LatestProjectKinds : AddProject(MaxProjects, MaxLatestMood + MaxProjects, e, "Active", k)
    \/ AdvanceClock(MaxClock)
    \/ RunProjectsPage

SpecLatest == InitLatest /\ [][NextLatest]_vars

\* the attendance sub-score of a project owner: (emp_id, status) of the
\* attendance rows
SubAttKinds ==
    { <<1, "Present">>, <<1, "present">>, <<1, "Absent">>, <<1, "Half-day">>,
      <<1, "Remote">>, <<2, "Absent">> }

SubProjectKinds == { <<50, Today + 7>> }

InitSub ==
    /\ InitTables
    /\ emp_df = ActiveEmployees /\ mood_score_col = TRUE
    /\ history = FALSE /\ users = {DefaultAdmin}

NextSub ==
    \/ \E k \in SubAttKinds : AddAttendance(MaxSubAtt, MaxSubAtt + MaxProjects, k[1], k[2])
    \/ \E e \in EmpIds, k \in SubProjectKinds : AddProject(MaxProjects, MaxSubAtt + MaxProjects, e, "Active", k)
    \/ RunProjectsPage

SpecSub == InitSub /\ [][NextSub]_vars

\* tenure metrics: (Status, Join_Date, Resign_Date) of the employee records;
\* a date is NaT when its text is empty or cannot be parsed
TenureKinds ==
    { <<st, j, r>> : st \in EmpStatuses, j \in {Today - 8, NaT},
                     r \in {NaT, Today - 9, Today - 8, Today - 5, Today - 2} }

InitTenure ==
    /\ InitTables
    /\ emp_df = <<>> /\ mood_score_col = TRUE
    /\ history = FALSE /\ users = {DefaultAdmin}

NextTenure ==
    \/ \E k \in TenureKinds : AddEmployee(MaxTenureEmps, k)
    \/ RunSummaryPage

SpecTenure == InitTenure /\ [][NextTenure]_vars

\* login, logout and page visits of one browser session
InitAuth ==
    /\ InitTables
    /\ emp_df = ActiveEmployees /\ mood_score_col = TRUE
    /\ history = FALSE /\ users \in UserTables

NextAuth ==
    \/ \E p \in Pages, g \in BOOLEAN : VisitPage(p, g)
    \/ \E u \in Usernames, pw \in Passwords, up \in BOOLEAN : SubmitLogin(u, pw, up)
    \/ Logout

SpecAuth == InitAuth /\ [][NextAuth]_vars

----------------------------------------------------------------------------
(* Properties of the attrition scorer (checked under Spec) *)

AttRowsOf(att, eid) == CountIn(att, { r \in BagToSet(att) : r.emp_id = eid })
AbsentRowsOf(att, eid) == CountIn(att, { r \in BagToSet(att) : r.emp_id = eid /\ IsAbsentRow(r) })
FbRowsOf(eid) == CountIn(feedback_df, { r \in BagToSet(feedback_df) : r.receiver_id = eid })
TaskRowsOf(eid) == CountIn(tasks_df, { r \in BagToSet(tasks_df) : r.emp_id = eid })
OverdueOf(eid) == CountIn(tasks_df, { r \in BagToSet(tasks_df) : r.emp_id = eid /\ IsOverdue(r) })

\* the employee record a result row was computed from
EmpOf(row) == CHOOSE e \in Range(emp_df) : e.Emp_ID = row.Emp_ID

\* a completed run has exactly one result row per employee
RowPerEmployee ==
    /\ Len(risk_df) = Len(emp_df)
    /\ \A i \in DOMAIN emp_df : \E j \in DOMAIN risk_df :
           risk_df[j].Emp_ID = emp_df[i].Emp_ID /\ risk_df[j].Status = emp_df[i].Status

\* C1: in a completed run every Resigned employee has a result row, and a
\* row of a Resigned employee has Risk_Score 100, level Resigned and the
\* single factor "already resigned", whatever signal rows the employee has.
C1_ResignedShortCircuit ==
    risk_run = "done" =>
        /\ RowPerEmployee
        /\ \A j \in DOMAIN risk_df :
               risk_df[j].Status = "Resigned" =>
                   /\ risk_df[j].Risk_Score = 100
                   /\ risk_df[j].Risk_Level = "Resigned"
                   /\ risk_df[j].Key_Factors = <<"Employee has already resigned">>

\* a Resigned employee with rows in all four signal tables, three overdue
\* tasks among them, has been scored
C1_Witness ==
    /\ risk_run = "done"
    /\ \E j \in DOMAIN risk_df :
           /\ risk_df[j].Status = "Resigned"
           /\ AbsentRowsOf(att_df, risk_df[j].Emp_ID) > 0
           /\ EmpMood(risk_df[j].Emp_ID) # <<>>
           /\ FbRowsOf(risk_df[j].Emp_ID) > 0
           /\ OverdueOf(risk_df[j].Emp_ID) >= 3

\* C2: the score of a non-Resigned employee is min(95, attendance + mood +
\* feedback + task component), hence at most 95; 100 occurs only for
\* Resigned employees.
C2_SumClampedAt95 ==
    risk_run = "done" =>
        \A j \in DOMAIN risk_df :
            LET row == risk_df[j]
                eid == row.Emp_ID
                raw == RiskSum(AttendanceFactors(att_df, eid)) + RiskSum(MoodFactors(eid))
                       + RiskSum(FeedbackFactors(eid)) + RiskSum(TaskFactors(eid))
            IN /\ row.Status # "Resigned" =>
                      /\ row.Risk_Score = (IF raw > 95 THEN 95 ELSE raw)
                      /\ row.Risk_Score <= 95
               /\ row.Risk_Score = 100 => row.Status = "Resigned"

\* every penalty fires for one non-Resigned employee: raw sum 100, score 95
C2_Witness ==
    /\ risk_run = "done"
    /\ \E j \in DOMAIN risk_df :
           /\ risk_df[j].Status # "Resigned"
           /\ RiskSum(RiskFactors(att_df, risk_df[j].Emp_ID)) = 100
           /\ risk_df[j].Risk_Score = 95

\* C3: the level of a non-Resigned employee is determined by the final
\* score: High Risk iff score >= 70, Medium Risk iff 40 <= score < 70,
\* Low Risk iff score < 40.
C3_LevelBands ==
    risk_run = "done" =>
        \A j \in DOMAIN risk_df :
            LET row == risk_df[j]
            IN row.Status # "Resigned" =>
                   /\ row.Risk_Level \in {"High Risk", "Medium Risk", "Low Risk"}
                   /\ row.Risk_Level = "High Risk" <=> row.Risk_Score >= 70
                   /\ row.Risk_Level = "Medium Risk" <=>
                          (row.Risk_Score >= 40 /\ row.Risk_Score < 70)
                   /\ row.Risk_Level = "Low Risk" <=> row.Risk_Score < 40

\* both boundaries occur in one run: a score of exactly 70 reported High
\* Risk and a score of exactly 40 reported Medium Risk
C3_Witness ==
    /\ risk_run = "done"
    /\ \E j \in DOMAIN risk_df :
           /\ risk_df[j].Status # "Resigned"
           /\ risk_df[j].Risk_Score = 70 /\ risk_df[j].Risk_Level = "High Risk"
    /\ \E j \in DOMAIN risk_df :
           /\ risk_df[j].Status # "Resigned"
           /\ risk_df[j].Risk_Score = 40 /\ risk_df[j].Risk_Level = "Medium Risk"

\* the attendance tables that differ from att_df only in the rows of eid,
\* with at least one and at most MaxAtt rows of eid
OtherAttRows(eid) ==
    LET S == { r \in BagToSet(att_df) : r.emp_id # eid }
    IN [r \in S |-> att_df[r]]

AttCounts ==
    { c \in [AttStatuses -> 0..MaxAtt] :
          c["Present"] + c["Absent"] >= 1 /\ c["Present"] + c["Absent"] <= MaxAtt }

AttRowsFor(eid, c) ==
    LET S == { [emp_id |-> eid, status |-> s] : s \in { t \in AttStatuses : c[t] > 0 } }
    IN [r \in S |-> c[r.status]]

\* C4: for a non-Resigned employee with attendance rows, replacing the
\* employee's attendance rows by rows of a higher (lower) absenteeism rate,
\* all other inputs fixed, never gives a lower (higher) Risk_Score.
C4_AbsenteeismMonotone ==
    risk_run = "done" =>
        \A j \in DOMAIN risk_df :
            LET row == risk_df[j]
                eid == row.Emp_ID
                n1  == AttRowsOf(att_df, eid)
                a1  == AbsentRowsOf(att_df, eid)
            IN (row.Status # "Resigned" /\ n1 > 0) =>
                   \A c \in AttCounts :
                       LET alt == OtherAttRows(eid) (+) AttRowsFor(eid, c)
                           n2  == AttRowsOf(alt, eid)
                           a2  == AbsentRowsOf(alt, eid)
                           r2  == RiskRow(alt, EmpOf(row)).Risk_Score
                       IN /\ a1 * n2 <= a2 * n1 => row.Risk_Score <= r2
                          /\ a2 * n1 <= a1 * n2 => r2 <= row.Risk_Score

\* a scored employee in the moderate bucket (rate in (0.15, 0.30]), which
\* has both a lower and a higher bucket next to it
C4_Witness ==
    /\ risk_run = "done"
    /\ \E j \in DOMAIN risk_df :
           LET eid == risk_df[j].Emp_ID
           IN /\ risk_df[j].Status # "Resigned"
              /\ AttRowsOf(att_df, eid) > 0
              /\ 100 * AbsentRowsOf(att_df, eid) > 15 * AttRowsOf(att_df, eid)
              /\ 10 * AbsentRowsOf(att_df, eid) <= 3 * AttRowsOf(att_df, eid)
              /\ risk_df[j].Risk_Score = 15 + 5

\* C5: an Active employee without any attendance, mood, feedback and task
\* row is scored 10 (5 for no attendance data, 5 for no mood data) and Low
\* Risk, whether the tables are empty or hold rows of other employees.
C5_NoSignalRows ==
    risk_run = "done" =>
        \A j \in DOMAIN risk_df :
            LET row == risk_df[j]
                eid == row.Emp_ID
            IN (/\ row.Status = "Active"
                /\ AttRowsOf(att_df, eid) = 0
                /\ EmpMood(eid) = <<>>
                /\ FbRowsOf(eid) = 0
                /\ TaskRowsOf(eid) = 0) =>
                   /\ row.Risk_Score = 10
                   /\ row.Risk_Level = "Low Risk"
                   /\ row.Key_Factors = <<"No attendance data", "No mood data available">>

\* an Active employee without rows is scored while all four tables hold
\* rows of another employee
C5_Witness ==
    /\ risk_run = "done"
    /\ att_df # EmptyBag /\ mood_df # <<>> /\ feedback_df # EmptyBag /\ tasks_df # EmptyBag
    /\ \E j \in DOMAIN risk_df :
           LET eid == risk_df[j].Emp_ID
           IN /\ risk_df[j].Status = "Active"
              /\ AttRowsOf(att_df, eid) = 0 /\ EmpMood(eid) = <<>>
              /\ FbRowsOf(eid) = 0 /\ TaskRowsOf(eid) = 0
              /\ risk_df[j].Risk_Score = 10

\* the same with all four signal tables empty
C5_WitnessEmptyTables ==
    /\ risk_run = "done"
    /\ att_df = EmptyBag /\ mood_df = <<>> /\ feedback_df = EmptyBag /\ tasks_df = EmptyBag
    /\ \E j \in DOMAIN risk_df :
           risk_df[j].Status = "Active" /\ risk_df[j].Risk_Score = 10

----------------------------------------------------------------------------
(* Properties of the project health scorer (checked under SpecHealth) *)

\* the project record a health row was computed from
ProjectOf(h) == CHOOSE r \in Range(project_df) : r.project_id = h.project_id

\* C6: the Health Score of every project lies in 0..100; a negative raw sum
\* gives 0 and a raw sum above 100 gives 100.
C6_HealthScoreClamped ==
    health_run = "done" =>
        /\ Len(health_df) = Len(project_df)
        /\ \A j \in DOMAIN health_df :
               LET h   == health_df[j]
                   raw == RawHealth(ProjectOf(h))
               IN /\ h.health_score >= 0 /\ h.health_score <= 100
                  /\ raw < 0 => h.health_score = 0
                  /\ raw > 100 => h.health_score = 100

\* a project with a negative raw sum has been scored 0
C6_Witness ==
    /\ health_run = "done"
    /\ \E j \in DOMAIN health_df :
           RawHealth(ProjectOf(health_df[j])) < 0 /\ health_df[j].health_score = 0

\* a project with a raw sum above 100 has been scored 100
C6_WitnessAbove ==
    /\ health_run = "done"
    /\ \E j \in DOMAIN health_df :
           RawHealth(ProjectOf(health_df[j])) > 100 /\ health_df[j].health_score = 100

\* C7: the health status is Completed for a Completed project, else
\* Cancelled for a Cancelled project, else Healthy from 70, At Risk from 40,
\* Critical below; so Completed and Cancelled are reported exactly for the
\* projects of that status, whatever the score.
C7_StatusPriority ==
    health_run = "done" =>
        \A j \in DOMAIN health_df :
            LET h == health_df[j]
            IN /\ h.status = "Completed" => h.health_status = "Completed"
               /\ h.status = "Cancelled" => h.health_status = "Cancelled"
               /\ h.status \notin {"Completed", "Cancelled"} =>
                      /\ h.health_score >= 70 => h.health_status = "Healthy"
                      /\ (h.health_score >= 40 /\ h.health_score < 70) =>
                             h.health_status = "At Risk"
                      /\ h.health_score < 40 => h.health_status = "Critical"

\* a Cancelled project with health score 0 is reported Cancelled
C7_Witness ==
    /\ health_run = "done"
    /\ \E j \in DOMAIN health_df :
           /\ health_df[j].status = "Cancelled"
           /\ health_df[j].health_score = 0
           /\ health_df[j].health_status = "Cancelled"

\* C8: Health Score = clamp(progress + attendance sub-score of the owner +
\* mood sub-score of the owner + deadline adjustment, 0, 100), the deadline
\* adjustment being -20 when overdue, -10 when due within 7 days, else 0;
\* progress 50, sub-scores 20 and 20, due in 3 days give 80 and Healthy.
C8_HealthFormula ==
    health_run = "done" =>
        \A j \in DOMAIN health_df :
            LET h   == health_df[j]
                adj == IF h.days_left < 0 THEN -20
                       ELSE IF h.days_left < 7 THEN -10 ELSE 0
                sum == h.progress + attendance_score(h.owner_emp_id)
                       + mood_score(h.owner_emp_id) + adj
            IN /\ h.health_score = (IF sum < 0 THEN 0 ELSE IF sum > 100 THEN 100 ELSE sum)
               /\ h.due_date # NaT => h.days_left = h.due_date - today
               /\ (/\ h.progress = 50
                   /\ attendance_score(h.owner_emp_id) = 20
                   /\ mood_score(h.owner_emp_id) = 20
                   /\ h.days_left = 3
                   /\ h.status \in {"Active", "On Hold"}) =>
                      h.health_score = 80 /\ h.health_status = "Healthy"

\* the example: progress 50, both sub-scores 20, due in 3 days
C8_Witness ==
    /\ health_run = "done"
    /\ \E j \in DOMAIN health_df :
           /\ health_df[j].progress = 50
           /\ attendance_score(health_df[j].owner_emp_id) = 20
           /\ mood_score(health_df[j].owner_emp_id) = 20
           /\ health_df[j].days_left = 3
           /\ health_df[j].status = "Active"
           /\ health_df[j].health_score = 80
           /\ health_df[j].health_status = "Healthy"

----------------------------------------------------------------------------
(* Properties of the mood labelling (checked under SpecLabel) *)

MoodLabels == {"Happy", "Neutral", "Stressed"}

\* C9: a composite in 5..25 gets exactly one of the three labels: Happy iff
\* composite >= 20, Neutral iff 13 <= composite < 20, Stressed iff
\* composite < 13; the composite of five answers in 1..5 lies in 5..25.
C9_LabelBands ==
    /\ answers # <<>> => score_cell.kind = "int" /\ score_cell.v \in 5..25
    /\ (mood_label # "" /\ score_cell.kind = "int" /\ score_cell.v \in 5..25) =>
           /\ mood_label \in MoodLabels
           /\ mood_label = "Happy" <=> score_cell.v >= 20
           /\ mood_label = "Neutral" <=> (score_cell.v >= 13 /\ score_cell.v < 20)
           /\ mood_label = "Stressed" <=> score_cell.v < 13

\* the composite 20 of a survey has been labelled Happy
C9_Witness ==
    /\ answers # <<>>
    /\ score_cell = IntCell(20)
    /\ mood_label = "Happy"

InRange(cell) == cell.kind = "int" /\ cell.v \in 5..25

----------------------------------------------------------------------------
(* Properties of repeated runs (checked under SpecRuns) *)

\* a step in which one of the scoring pages ran
IsRunStep ==
    \/ risk_run = "idle" /\ risk_run' # "idle"
    \/ health_run = "idle" /\ health_run' # "idle"

C14_NoCrossEntityDependency ==
    (risk_run # "idle" /\ risk_prev # NoRun) =>
        \A j \in DOMAIN risk_prev[2] :
            risk_prev[2][j].Emp_ID \notin touched =>
                \E k \in DOMAIN risk_df : risk_df[k] = risk_prev[2][j]

\* the same for a later run that completed
C14_CompletedRunsIndependent ==
    (risk_run = "done" /\ risk_prev # NoRun) =>
        \A j \in DOMAIN risk_prev[2] :
            risk_prev[2][j].Emp_ID \notin touched =>
                \E k \in DOMAIN risk_df : risk_df[k] = risk_prev[2][j]

----------------------------------------------------------------------------
(* Error handling of the attrition scorer (checked under Spec) *)

\* C12: a run of the attrition scorer never aborts on the data of one
\* employee: whatever the tables hold, the run returns a row for every
\* employee whose own scoring does not fail.
C12_BatchNeverAborts ==
    risk_run # "idle" =>
        \A i \in DOMAIN emp_df :
            (emp_df[i].Status = "Resigned" \/ ~MoodRaises(emp_df[i].Emp_ID)) =>
                \E j \in DOMAIN risk_df : risk_df[j].Emp_ID = emp_df[i].Emp_ID

----------------------------------------------------------------------------
(* Properties of the scorer on arbitrary employee records (checked under   *)
(* SpecRecords)                                                            *)

TiesByEmpId(rows) ==
    \A i, j \in DOMAIN rows :
        (i < j /\ rows[i].Emp_ID # NoId /\ rows[j].Emp_ID # NoId) =>
            \/ rows[i].Risk_Score > rows[j].Risk_Score
            \/ /\ rows[i].Risk_Score = rows[j].Risk_Score
               /\ rows[i].Emp_ID < rows[j].Emp_ID

\* C15: the output of compute_attrition_risk and the top-10 High Risk list
\* are ordered by Risk_Score descending, ties by Emp_ID ascending, whatever
\* the row order of the employees table.
C15_TiesByEmpId ==
    risk_run = "done" => TiesByEmpId(risk_df) /\ TiesByEmpId(high_risk(risk_df))

----------------------------------------------------------------------------
(* The four components of the attrition score *)

\* the status spellings of the model that read absent or half-day when the
\* case of the letters is ignored
AbsentSpellings == {"Absent", "absent", "Half-day"}

\* C16 (under SpecAtt): for a non-Resigned employee with n > 0 attendance
\* rows, a of them Absent or Half-day in any case of letters, every row
\* counted once, the attendance component is 30 when a/n > 0.30, 15 when
\* 0.15 < a/n <= 0.30 and 0 when a/n <= 0.15.
C16_AttendanceComponent ==
    risk_run = "done" =>
        \A j \in DOMAIN risk_df :
            LET row  == risk_df[j]
                eid  == row.Emp_ID
                n    == CountIn(att_df, { r \in BagToSet(att_df) : r.emp_id = eid })
                a    == CountIn(att_df, { r \in BagToSet(att_df) :
                                              r.emp_id = eid /\ r.status \in AbsentSpellings })
                comp == IF 10 * a > 3 * n THEN 30
                        ELSE IF 100 * a > 15 * n THEN 15 ELSE 0
                rest == RiskSum(MoodFactors(eid)) + RiskSum(FeedbackFactors(eid))
                        + RiskSum(TaskFactors(eid))
            IN (row.Status # "Resigned" /\ n > 0) =>
                   /\ row.Risk_Score = Min(95, comp + rest)
                   /\ "High absenteeism" \in Range(row.Key_Factors) <=> comp = 30
                   /\ "Moderate absenteeism" \in Range(row.Key_Factors) <=> comp = 15
                   /\ "No attendance data" \notin Range(row.Key_Factors)

\* an employee with 20 rows, 3 of them absent (one Absent, one absent, one
\* Half-day) and a Remote one among the others: rate exactly 0.15, component 0
C16_Witness ==
    /\ risk_run = "done"
    /\ CopiesIn([emp_id |-> 1, status |-> "Absent"], att_df) = 1
    /\ CopiesIn([emp_id |-> 1, status |-> "absent"], att_df) = 1
    /\ CopiesIn([emp_id |-> 1, status |-> "Half-day"], att_df) = 1
    /\ CopiesIn([emp_id |-> 1, status |-> "Remote"], att_df) >= 1
    /\ CountIn(att_df, { r \in BagToSet(att_df) : r.emp_id = 1 }) = 20
    /\ \E j \in DOMAIN risk_df : risk_df[j].Emp_ID = 1 /\ risk_df[j].Risk_Score = 0 + 5

\* an employee with 10 rows, 3 of them absent: rate exactly 0.30, component 15
C16_WitnessAtThirty ==
    /\ risk_run = "done"
    /\ CountIn(att_df, { r \in BagToSet(att_df) : r.emp_id = 1 /\ r.status \in AbsentSpellings }) = 3
    /\ CountIn(att_df, { r \in BagToSet(att_df) : r.emp_id = 1 }) = 10
    /\ \E j \in DOMAIN risk_df : risk_df[j].Emp_ID = 1 /\ risk_df[j].Risk_Score = 15 + 5


\* the mood rows of eid, those whose remarks read Stressed, and those with
\* a numeric score
MoodRowsOf(eid) == SelectSeq(mood_df, LAMBDA r : r.emp_id = eid)
StressedRemarksOf(eid) ==
    SelectSeq(mood_df, LAMBDA r : r.emp_id = eid /\ Contains(r.remarks, "Stressed"))
ScoredRowsOf(eid) == SelectSeq(mood_df, LAMBDA r : r.emp_id = eid /\ r.mood_score.num)

C17_WitnessLowOnly ==
    /\ risk_run = "done"
    /\ \E j \in DOMAIN risk_df :
           /\ Len(MoodRowsOf(risk_df[j].Emp_ID)) = 4
           /\ Len(StressedRemarksOf(risk_df[j].Emp_ID)) = 1
           /\ risk_df[j].Key_Factors = <<"No attendance data", "Low avg mood score">>

\* C18 (under SpecMood): the rows counted as Stressed in the stress rate are
\* the rows that score_to_label labels Stressed, those with a composite
\* below 13: the stress bucket reported for an employee is the bucket of
\* (rows with a Stressed composite) / (all mood rows).
C18_StressedByComposite ==
    risk_run = "done" =>
        \A j \in DOMAIN risk_df :
            LET row == risk_df[j]
                eid == row.Emp_ID
                n   == Len(MoodRowsOf(eid))
                c   == Len(SelectSeq(MoodRowsOf(eid),
                               LAMBDA r : score_to_label(AsScoreCell(r.mood_score)) = "Stressed"))
            IN (row.Status # "Resigned" /\ n > 0) =>
                   /\ "Frequently stressed" \in Range(row.Key_Factors) <=> 10 * c > 5 * n
                   /\ "Occasional stress" \in Range(row.Key_Factors) <=>
                          (10 * c <= 5 * n /\ 100 * c > 25 * n)


\* C19 (under SpecFb): for a non-Resigned employee with n feedback rows as
\* receiver and mean rating m, the feedback component is 20 when m < 2.5,
\* 10 when 2.5 <= m < 3.5 and 0 when m >= 3.5; with n = 0 it is 0 and no
\* feedback factor is reported.
C19_FeedbackComponent ==
    risk_run = "done" =>
        \A j \in DOMAIN risk_df :
            LET row   == risk_df[j]
                eid   == row.Emp_ID
                mine  == { r \in BagToSet(feedback_df) : r.receiver_id = eid }
                n     == CountIn(feedback_df, mine)
                total == SumRatings(feedback_df, mine)
                comp  == IF n = 0 THEN 0
                         ELSE IF 10 * total < 25 * n THEN 20
                         ELSE IF 10 * total < 35 * n THEN 10 ELSE 0
                rest  == RiskSum(AttendanceFactors(att_df, eid)) + RiskSum(MoodFactors(eid))
                         + RiskSum(TaskFactors(eid))
            IN row.Status # "Resigned" =>
                   /\ row.Risk_Score = Min(95, comp + rest)
                   /\ "Poor feedback rating" \in Range(row.Key_Factors) <=> comp = 20
                   /\ "Below-average feedback" \in Range(row.Key_Factors) <=> comp = 10

\* ratings 2 and 3, mean exactly 2.5: component 10; the other employee has
\* no feedback row and only the two no-data penalties
C19_Witness ==
    /\ risk_run = "done"
    /\ feedback_df = SetToBag({[receiver_id |-> 1, rating |-> NumCell(2)],
                               [receiver_id |-> 1, rating |-> NumCell(3)]})
    /\ \E j \in DOMAIN risk_df :
           /\ risk_df[j].Emp_ID = 1 /\ risk_df[j].Risk_Score = 10 + 5 + 5
           /\ "Below-average feedback" \in Range(risk_df[j].Key_Factors)
    /\ \E j \in DOMAIN risk_df :
           /\ risk_df[j].Emp_ID = 2 /\ risk_df[j].Risk_Score = 5 + 5
           /\ risk_df[j].Key_Factors = <<"No attendance data", "No mood data available">>

\* ratings 3 and 4, mean exactly 3.5: component 0
C19_WitnessAtThreeAndAHalf ==
    /\ risk_run = "done"
    /\ feedback_df = SetToBag({[receiver_id |-> 1, rating |-> NumCell(3)],
                               [receiver_id |-> 1, rating |-> NumCell(4)]})
    /\ \E j \in DOMAIN risk_df : risk_df[j].Emp_ID = 1 /\ risk_df[j].Risk_Score = 0 + 5 + 5

\* C20 (under SpecTask): the task component of a non-Resigned employee is 10
\* exactly when at least 3 of the employee's tasks are not Completed and due
\* strictly before today, else 0; a task due today, a Completed task, a
\* task of another employee and a task without readable due date do not
\* count.
C20_TaskComponent ==
    risk_run = "done" =>
        \A j \in DOMAIN risk_df :
            LET row   == risk_df[j]
                eid   == row.Emp_ID
                late  == { r \in BagToSet(tasks_df) :
                               /\ r.emp_id = eid
                               /\ r.status \in {"Pending", "In-Progress"}
                               /\ r.due_date # NaT
                               /\ r.due_date < today }
                comp  == IF CountIn(tasks_df, late) >= 3 THEN 10 ELSE 0
                rest  == RiskSum(AttendanceFactors(att_df, eid)) + RiskSum(MoodFactors(eid))
                         + RiskSum(FeedbackFactors(eid))
            IN row.Status # "Resigned" =>
                   /\ row.Risk_Score = Min(95, comp + rest)
                   /\ "overdue tasks" \in Range(row.Key_Factors) <=> comp = 10

\* exactly three overdue tasks, one of them In-Progress, next to a task due
\* today: component 10
C20_Witness ==
    /\ risk_run = "done"
    /\ CopiesIn([emp_id |-> 1, status |-> "Pending", due_date |-> Today - 1], tasks_df) = 2
    /\ CopiesIn([emp_id |-> 1, status |-> "In-Progress", due_date |-> Today - 1], tasks_df) = 1
    /\ CopiesIn([emp_id |-> 1, status |-> "Pending", due_date |-> Today], tasks_df) = 1
    /\ \E j \in DOMAIN risk_df :
           /\ risk_df[j].Emp_ID = 1 /\ risk_df[j].Risk_Score = 10 + 5 + 5
           /\ "overdue tasks" \in Range(risk_df[j].Key_Factors)

\* two overdue tasks next to a Completed one due yesterday and one without
\* readable due date: component 0
C20_WitnessNotCounted ==
    /\ risk_run = "done"
    /\ CopiesIn([emp_id |-> 1, status |-> "Pending", due_date |-> Today - 1], tasks_df) = 2
    /\ CopiesIn([emp_id |-> 1, status |-> "Completed", due_date |-> Today - 1], tasks_df) = 1
    /\ CopiesIn([emp_id |-> 1, status |-> "Pending", due_date |-> NaT], tasks_df) = 1
    /\ \E j \in DOMAIN risk_df : risk_df[j].Emp_ID = 1 /\ risk_df[j].Risk_Score = 0 + 5 + 5


----------------------------------------------------------------------------
(* Ratings and mood scores that are not numbers (checked under SpecCoerce) *)

\* the mood rows and the feedback rows of eid whose value is not a number
BadScoresOf(eid) == SelectSeq(mood_df, LAMBDA r : r.emp_id = eid /\ ~r.mood_score.num)
BadRatingsOf(eid) == { r \in BagToSet(feedback_df) : r.receiver_id = eid /\ ~r.rating.num }

\* every employee is scored, the penalties following the mean of the numeric
\* values alone: the low-score penalty (10) and the feedback penalty (20 or
\* 10) are not applied to an employee none of whose values is a number
AllScoredByNumericMeans ==
    /\ Len(risk_df) = Len(emp_df)
    /\ \A i \in DOMAIN emp_df : \E j \in DOMAIN risk_df : risk_df[j].Emp_ID = emp_df[i].Emp_ID
    /\ \A j \in DOMAIN risk_df :
           LET row     == risk_df[j]
               eid     == row.Emp_ID
               scored  == ScoredRowsOf(eid)
               msum    == SumSeq([i \in DOMAIN scored |-> scored[i].mood_score.v])
               low     == IF Len(scored) > 0 /\ msum < 10 * Len(scored) THEN 10 ELSE 0
               mood    == IF MoodRowsOf(eid) = <<>> THEN 5 ELSE low
               rated   == { r \in BagToSet(feedback_df) : r.receiver_id = eid /\ r.rating.num }
               n       == CountIn(feedback_df, rated)
               fsum    == SumRatings(feedback_df, rated)
               fb      == IF n = 0 THEN 0
                          ELSE IF 10 * fsum < 25 * n THEN 20
                          ELSE IF 10 * fsum < 35 * n THEN 10 ELSE 0
           IN /\ row.Risk_Score = 5 + mood + fb
              /\ "Low avg mood score" \in Range(row.Key_Factors) <=> low = 10
              /\ "Poor feedback rating" \in Range(row.Key_Factors) <=> fb = 20
              /\ "Below-average feedback" \in Range(row.Key_Factors) <=> fb = 10
              /\ (MoodRowsOf(eid) # <<>> /\ scored = <<>>) => low = 0
              /\ (BadRatingsOf(eid) # {} /\ n = 0) => fb = 0

\* C21 (under SpecCoerce): a run over ratings and mood scores that are not
\* numbers does not raise and scores every employee; a value that is not a
\* number is left out of the mean, and the mean-based penalty is not
\* applied to an employee none of whose values is a number.
C21_MalformedCoerced ==
    risk_run # "idle" => (risk_run = "done" /\ AllScoredByNumericMeans)

\* the same on a mood_logs table that has a mood_score column, or with no
\* mood row at all: pd.to_numeric(errors="coerce") is reached
C21_CoercedWhenColumnExists ==
    (risk_run # "idle" /\ (mood_score_col \/ mood_df = <<>>)) =>
        (risk_run = "done" /\ AllScoredByNumericMeans)

\* the run raised on a table without mood_score column: employee 1 has a
\* rating that is not a number and a mood row
C21_RaisedOnMissingColumn ==
    /\ ~mood_score_col /\ risk_run = "raised"
    /\ BadRatingsOf(1) # {} /\ MoodRowsOf(1) # <<>>

\* every value of employee 1 is not a number: two mood scores and a rating;
\* the run completed and the employee carries the attendance penalty only
C21_Witness ==
    /\ mood_score_col /\ risk_run = "done"
    /\ Len(BadScoresOf(1)) = 2 /\ ScoredRowsOf(1) = <<>>
    /\ BadRatingsOf(1) # {}
    /\ \E j \in DOMAIN risk_df :
           /\ risk_df[j].Emp_ID = 1
           /\ risk_df[j].Risk_Score = 5
           /\ risk_df[j].Key_Factors = <<"No attendance data">>

\* scores 12, 12 and one that is not a number: the mean is 12, no penalty
C21_WitnessLeftOut ==
    /\ mood_score_col /\ risk_run = "done"
    /\ Len(BadScoresOf(1)) = 1 /\ Len(ScoredRowsOf(1)) = 2
    /\ \A i \in DOMAIN ScoredRowsOf(1) : ScoredRowsOf(1)[i].mood_score.v = 12
    /\ \E j \in DOMAIN risk_df : risk_df[j].Emp_ID = 1 /\ risk_df[j].Risk_Score = 5


----------------------------------------------------------------------------
(* Deadline adjustment and sub-scores of the project health score *)

\* C22 (under SpecHealth): for a project whose due date parses, days_left is
\* the due date minus today in whole days and the health score carries the
\* deadline adjustment -20 when days_left < 0, -10 when 0 <= days_left < 7
\* (a project due today included) and 0 when days_left >= 7, whatever the
\* status of the project.
C22_DeadlineAdjustment ==
    health_run = "done" =>
        \A i \in DOMAIN health_df :
            LET h    == health_df[i]
                p    == project_df[i]
                d    == p.due_date - today
                adj  == IF d < 0 THEN -20 ELSE IF d < 7 THEN -10 ELSE 0
                base == p.progress + attendance_score(p.owner_emp_id) + mood_score(p.owner_emp_id)
            IN p.due_date # NaT =>
                   /\ h.days_left = d
                   /\ h.health_score = Min(100, Max(0, base + adj))

\* a Completed project due today lost 10 points
C22_Witness ==
    /\ health_run = "done"
    /\ \E i \in DOMAIN health_df :
           /\ health_df[i].status = "Completed"
           /\ health_df[i].due_date = today
           /\ health_df[i].health_score =
                  project_df[i].progress + attendance_score(project_df[i].owner_emp_id)
                  + mood_score(project_df[i].owner_emp_id) - 10
           /\ health_df[i].health_score > 0

\* a Cancelled project that is overdue by a day lost 20 points
C22_WitnessOverdue ==
    /\ health_run = "done"
    /\ \E i \in DOMAIN health_df :
           /\ health_df[i].status = "Cancelled"
           /\ health_df[i].days_left = -1
           /\ health_df[i].health_score = 0 + 20 + 20 - 20


\* the attendance rows of eid, as a count
OwnerAttRows(eid) == CountIn(att_df, { r \in BagToSet(att_df) : r.emp_id = eid })

\* C23 (under SpecHealth): an owner without attendance rows gets the
\* attendance sub-score 5 and an owner without mood rows the mood sub-score
\* 5, whether the table is empty or holds rows of other employees only, so
\* that the rows of other employees never change a sub-score.
C23_NoDataDefaults ==
    health_run = "done" =>
        \A i \in DOMAIN health_df :
            LET h     == health_df[i]
                p     == project_df[i]
                owner == p.owner_emp_id
                att   == IF OwnerAttRows(owner) = 0 THEN 5 ELSE attendance_score(owner)
                mood  == IF EmpMood(owner) = <<>> THEN 5 ELSE mood_score(owner)
            IN h.health_score = ClampHealth(p.progress + att + mood + DeadlineBonus(h.days_left))

\* what the code does: the default 5 beside rows of other employees, 0 on
\* an empty table
C23_ZeroOnEmptyTable ==
    health_run = "done" =>
        \A i \in DOMAIN health_df :
            LET h     == health_df[i]
                p     == project_df[i]
                owner == p.owner_emp_id
                att   == IF att_df = EmptyBag THEN 0
                         ELSE IF OwnerAttRows(owner) = 0 THEN 5 ELSE attendance_score(owner)
                mood  == IF mood_df = <<>> THEN 0
                         ELSE IF EmpMood(owner) = <<>> THEN 5 ELSE mood_score(owner)
            IN h.health_score = ClampHealth(p.progress + att + mood + DeadlineBonus(h.days_left))

\* both tables empty: the project of progress 50 due in 3 days scores
\* 50 + 0 + 0 - 10
C23_EmptyTablesScoreZero ==
    /\ health_run = "done"
    /\ att_df = EmptyBag /\ mood_df = <<>>
    /\ \E i \in DOMAIN health_df :
           /\ health_df[i].progress = 50 /\ health_df[i].days_left = 3
           /\ health_df[i].health_score = 40

\* the same project after an attendance row and a mood row of the other
\* employee were added: 50 + 5 + 5 - 10
C23_OtherRowsGiveFive ==
    /\ health_run = "done"
    /\ \E i \in DOMAIN health_df :
           /\ health_df[i].progress = 50 /\ health_df[i].days_left = 3
           /\ OwnerAttRows(health_df[i].owner_emp_id) = 0 /\ att_df # EmptyBag
           /\ EmpMood(health_df[i].owner_emp_id) = <<>> /\ mood_df # <<>>
           /\ health_df[i].health_score = 50


----------------------------------------------------------------------------
(* The latest mood entry of a project owner (checked under SpecLatest) *)

\* the mood entries of eid that carry the latest log timestamp
LatestEntriesOf(eid) ==
    { r \in Range(EmpMood(eid)) : \A q \in Range(EmpMood(eid)) : q.log_date <= r.log_date }

\* Happy 20, Neutral 10, anything else 0
LabelScore(remarks) ==
    IF Contains(remarks, "Happy") THEN 20
    ELSE IF Contains(remarks, "Neutral") THEN 10
    ELSE 0

\* C24 (under SpecLatest): the mood sub-score of an owner with mood rows is
\* determined by the entry with the latest log timestamp alone (Happy 20,
\* Neutral 10, anything else 0): whichever entry carries the latest
\* timestamp gives the sub-score, so neither older entries nor the order of
\* the rows, also of those that share the latest timestamp, change it.
C24_LatestEntryAlone ==
    health_run = "done" =>
        \A i \in DOMAIN health_df :
            LET h     == health_df[i]
                p     == project_df[i]
                owner == p.owner_emp_id
            IN \A r \in LatestEntriesOf(owner) :
                   h.health_score =
                       ClampHealth(p.progress + attendance_score(owner) + LabelScore(r.remarks)
                                   + DeadlineBonus(h.days_left))

\* what the code does: the entry listed last among those of the latest
\* timestamp gives the sub-score
C24_LastListedOfLatest ==
    health_run = "done" =>
        \A i \in DOMAIN health_df :
            LET h     == health_df[i]
                p     == project_df[i]
                owner == p.owner_emp_id
                mine  == EmpMood(owner)
            IN mine # <<>> =>
                   \E k \in DOMAIN mine :
                       /\ mine[k] \in LatestEntriesOf(owner)
                       /\ \A j \in DOMAIN mine : j > k => mine[j] \notin LatestEntriesOf(owner)
                       /\ h.health_score =
                              ClampHealth(p.progress + attendance_score(owner)
                                          + LabelScore(mine[k].remarks) + DeadlineBonus(h.days_left))

\* an older Stressed entry and a later Happy one: the sub-score is 20
C24_WitnessOlderIgnored ==
    /\ health_run = "done"
    /\ \E i \in DOMAIN health_df :
           LET mine == EmpMood(health_df[i].owner_emp_id)
           IN /\ Len(mine) = 2
              /\ mine[1].log_date < mine[2].log_date
              /\ Contains(mine[1].remarks, "Stressed") /\ Contains(mine[2].remarks, "Happy")
              /\ health_df[i].health_score = 50 + 0 + 20 + DeadlineBonus(health_df[i].days_left)

\* two entries of the same timestamp, Happy listed before Stressed: 0
C24_TieHappyThenStressed ==
    /\ health_run = "done"
    /\ \E i \in DOMAIN health_df :
           LET mine == EmpMood(health_df[i].owner_emp_id)
           IN /\ Len(mine) = 2
              /\ mine[1].log_date = mine[2].log_date
              /\ Contains(mine[1].remarks, "Happy") /\ Contains(mine[2].remarks, "Stressed")
              /\ health_df[i].health_score = 50 + 0 + 0 + DeadlineBonus(health_df[i].days_left)

\* the same two entries listed the other way round: 20
C24_TieStressedThenHappy ==
    /\ health_run = "done"
    /\ \E i \in DOMAIN health_df :
           LET mine == EmpMood(health_df[i].owner_emp_id)
           IN /\ Len(mine) = 2
              /\ mine[1].log_date = mine[2].log_date
              /\ Contains(mine[1].remarks, "Stressed") /\ Contains(mine[2].remarks, "Happy")
              /\ health_df[i].health_score = 50 + 0 + 20 + DeadlineBonus(health_df[i].days_left)


----------------------------------------------------------------------------
(* The attendance sub-score of a project owner (checked under SpecSub) *)

\* the attendance rows of eid whose status reads Present in any case
OwnerPresentRows(eid) ==
    CountIn(att_df, { r \in BagToSet(att_df) : r.emp_id = eid /\ r.status \in {"Present", "present"} })

\* C25 (under SpecSub): for an owner with n > 0 attendance rows, p of them
\* Present in any case, the attendance sub-score is 20 when p/n > 0.8, 10
\* when 0.5 < p/n <= 0.8 and 0 when p/n <= 0.5; Remote, Half-day and Absent
\* rows count in n only.  The sub-score is 0, 10 or 20, never 15 or 30.
C25_AttendanceSubScore ==
    health_run = "done" =>
        \A i \in DOMAIN health_df :
            LET h     == health_df[i]
                p     == project_df[i]
                owner == p.owner_emp_id
                n     == OwnerAttRows(owner)
                pres  == OwnerPresentRows(owner)
                sub   == IF 10 * pres > 8 * n THEN 20
                         ELSE IF 10 * pres > 5 * n THEN 10 ELSE 0
            IN n > 0 =>
                   /\ sub \in {0, 10, 20}
                   /\ h.health_score = p.progress + sub + mood_score(owner) + DeadlineBonus(h.days_left)

\* 4 of 5 rows Present, one of them in lower case, the fifth Remote: the
\* rate is exactly 0.8 and the sub-score 10
C25_Witness ==
    /\ health_run = "done"
    /\ \E i \in DOMAIN health_df :
           /\ health_df[i].owner_emp_id = 1
           /\ OwnerAttRows(1) = 5 /\ OwnerPresentRows(1) = 4
           /\ [emp_id |-> 1, status |-> "present"] \in BagToSet(att_df)
           /\ [emp_id |-> 1, status |-> "Remote"] \in BagToSet(att_df)
           /\ health_df[i].health_score = 50 + 10

\* 1 of 2 rows Present, the other Half-day: the rate is exactly 0.5, 0
C25_WitnessHalf ==
    /\ health_run = "done"
    /\ \E i \in DOMAIN health_df :
           /\ health_df[i].owner_emp_id = 1
           /\ OwnerAttRows(1) = 2 /\ OwnerPresentRows(1) = 1
           /\ [emp_id |-> 1, status |-> "Half-day"] \in BagToSet(att_df)
           /\ health_df[i].health_score = 50 + 0

\* 5 of 5 rows Present: 20
C25_WitnessAllPresent ==
    /\ health_run = "done"
    /\ \E i \in DOMAIN health_df :
           /\ health_df[i].owner_emp_id = 1
           /\ OwnerAttRows(1) = 5 /\ OwnerPresentRows(1) = 5
           /\ health_df[i].health_score = 50 + 20


----------------------------------------------------------------------------
(* Tenure metrics of the resigned employees (checked under SpecTenure) *)

\* the positions of the Resigned employees whose dates both parse and whose
\* span is strictly positive
ValidSpanRows ==
    { i \in DOMAIN emp_df :
          /\ emp_df[i].Status = "Resigned"
          /\ emp_df[i].Join_Date # NaT /\ emp_df[i].Resign_Date # NaT
          /\ emp_df[i].Resign_Date - emp_df[i].Join_Date > 0 }

SpanOf(i) == emp_df[i].Resign_Date - emp_df[i].Join_Date

RECURSIVE SumSpans(_)
SumSpans(S) ==
    IF S = {} THEN 0
    ELSE LET i == CHOOSE x \in S : TRUE IN SpanOf(i) + SumSpans(S \ {i})

\* C26 (under SpecTenure): the tenure metrics of a completed page run are
\* the mean (shown in whole days), the minimum and the maximum of resign
\* date minus join date over the Resigned employees whose two dates parse
\* and whose span is strictly positive; zero, negative and unparsable spans
\* and employees that are not Resigned are left out, and no metric is shown
\* when no valid span remains.
C26_TenureOverValidSpans ==
    risk_run = "done" =>
        IF ValidSpanRows = {}
        THEN tenure.run = "none"
        ELSE /\ tenure.run = "shown"
             /\ \E i \in ValidSpanRows :
                    tenure.min = SpanOf(i) /\ \A k \in ValidSpanRows : SpanOf(i) <= SpanOf(k)
             /\ \E i \in ValidSpanRows :
                    tenure.max = SpanOf(i) /\ \A k \in ValidSpanRows : SpanOf(i) >= SpanOf(k)
             /\ tenure.avg * Cardinality(ValidSpanRows) <= SumSpans(ValidSpanRows)
             /\ SumSpans(ValidSpanRows) < (tenure.avg + 1) * Cardinality(ValidSpanRows)

\* spans of 3 and 6 days: mean 4.5 shown as 4, minimum 3, maximum 6
C26_Witness ==
    /\ risk_run = "done"
    /\ Len(emp_df) = 2 /\ ValidSpanRows = {1, 2}
    /\ tenure = [run |-> "shown", avg |-> 4, min |-> 3, max |-> 6]

\* one valid span of 6 days beside a Resigned employee with a span of 0
C26_WitnessZeroExcluded ==
    /\ risk_run = "done"
    /\ \E i \in DOMAIN emp_df :
           /\ emp_df[i].Status = "Resigned" /\ emp_df[i].Join_Date # NaT
           /\ emp_df[i].Resign_Date = emp_df[i].Join_Date
    /\ tenure = [run |-> "shown", avg |-> 6, min |-> 6, max |-> 6]

\* two Resigned employees, one with a negative span and one whose join date
\* does not parse: no metric
C26_WitnessNone ==
    /\ risk_run = "done"
    /\ \E i, k \in DOMAIN emp_df :
           /\ emp_df[i].Status = "Resigned" /\ emp_df[i].Join_Date # NaT
           /\ emp_df[i].Resign_Date # NaT /\ emp_df[i].Resign_Date < emp_df[i].Join_Date
           /\ emp_df[k].Status = "Resigned" /\ emp_df[k].Join_Date = NaT
           /\ emp_df[k].Resign_Date # NaT
    /\ tenure.run = "none"

\* an Active employee with a positive span is left out
C26_WitnessActiveExcluded ==
    /\ risk_run = "done"
    /\ \E i \in DOMAIN emp_df :
           /\ emp_df[i].Status = "Active" /\ emp_df[i].Join_Date # NaT
           /\ emp_df[i].Resign_Date # NaT /\ emp_df[i].Resign_Date > emp_df[i].Join_Date
    /\ tenure = [run |-> "shown", avg |-> 3, min |-> 3, max |-> 3]


----------------------------------------------------------------------------
(* Factor list and score of a result row (checked under Spec) *)

\* the penalty that goes with a factor of the list
FactorPenalty(factor) ==
    CASE factor = "High absenteeism"       -> 30
      [] factor = "Moderate absenteeism"   -> 15
      [] factor = "No attendance data"     -> 5
      [] factor = "Frequently stressed"    -> 30
      [] factor = "Occasional stress"      -> 15
      [] factor = "Low avg mood score"     -> 10
      [] factor = "No mood data available" -> 5
      [] factor = "Poor feedback rating"   -> 20
      [] factor = "Below-average feedback" -> 10
      [] factor = "overdue tasks"          -> 10
      [] OTHER                             -> 0

\* C27 (under Spec): in every row of a non-Resigned employee the factor list
\* and the score agree: the penalties of the listed factors add up to the
\* unclamped risk (each penalty appended exactly one factor and nothing
\* else did), Key_Factors is the placeholder 'No significant risk factors'
\* exactly when that risk is 0, and the score is a multiple of 5 in 0..95.
C27_FactorsMatchScore ==
    risk_run = "done" =>
        \A j \in DOMAIN risk_df :
            LET row     == risk_df[j]
                listed  == IF row.Key_Factors = <<"No significant risk factors">>
                           THEN <<>> ELSE row.Key_Factors
                penalty == SumSeq([i \in DOMAIN listed |-> FactorPenalty(listed[i])])
            IN row.Status # "Resigned" =>
                   /\ \A i \in DOMAIN listed : FactorPenalty(listed[i]) > 0
                   /\ row.Risk_Score = Min(95, penalty)
                   /\ (row.Key_Factors = <<"No significant risk factors">>) <=> (row.Risk_Score = 0)
                   /\ row.Key_Factors # <<>>
                   /\ row.Risk_Score % 5 = 0
                   /\ row.Risk_Score \in 0..95

\* an employee without any penalty carries the placeholder and the score 0,
\* the other one two factors and the score of their penalties
C27_Witness ==
    /\ risk_run = "done"
    /\ \E j \in DOMAIN risk_df :
           /\ risk_df[j].Status # "Resigned"
           /\ risk_df[j].Key_Factors = <<"No significant risk factors">>
           /\ risk_df[j].Risk_Score = 0
    /\ \E j \in DOMAIN risk_df :
           /\ risk_df[j].Status # "Resigned"
           /\ Len(risk_df[j].Key_Factors) = 2
           /\ risk_df[j].Risk_Score = 30 + 5


----------------------------------------------------------------------------
(* Projects without a usable due date (checked under SpecHealth) *)

\* C28 (under SpecHealth): the health computation completes with a row for
\* every project, and a project whose due date is missing or cannot be
\* parsed has Days Left 999, carries no deadline penalty, and is counted
\* neither as overdue (Days Left < 0) nor as due soon (Days Left < 7).
C28_UnparsedDueDate ==
    health_run # "idle" =>
        /\ health_run = "done"
        /\ Len(health_df) = Len(project_df)
        /\ overdue_p(health_df) =
               Cardinality({ i \in DOMAIN project_df :
                                 project_df[i].due_date # NaT /\ project_df[i].due_date < today })
        /\ \A i \in DOMAIN health_df :
               LET h == health_df[i]
                   p == project_df[i]
               IN p.due_date = NaT =>
                      /\ h.days_left = 999
                      /\ ~(h.days_left < 0) /\ ~(h.days_left < 7)
                      /\ h.health_score =
                             Min(100, Max(0, p.progress + attendance_score(p.owner_emp_id)
                                             + mood_score(p.owner_emp_id)))

\* an Active project without due date whose owner has full attendance:
\* 0 + 20 + 0, nothing taken off, not overdue
C28_Witness ==
    /\ health_run = "done"
    /\ \E i \in DOMAIN health_df :
           /\ project_df[i].due_date = NaT
           /\ health_df[i].status = "Active"
           /\ health_df[i].days_left = 999
           /\ attendance_score(health_df[i].owner_emp_id) = 20
           /\ health_df[i].health_score = 20 + mood_score(health_df[i].owner_emp_id)
    /\ overdue_p(health_df) = 0


----------------------------------------------------------------------------
(* Sessions and access gates (checked under SpecAuth) *)

LoggedIn(state) == Get(state, "logged_in", FALSE)

\* the step is a call of login: it left a new record of the call, or the
\* session became logged in
IsLoginStep == login_result' # login_result \/ (~LoggedIn(session) /\ LoggedIn(session'))

\* C29 (under SpecAuth): over any sequence of logins, logouts and page
\* visits, the body of a page runs only in a session that is logged in and
\* whose role is among the roles the page allows (Projects and AI Summary:
\* Admin, Manager, HR); a step that ends a login leaves the session empty
\* and no body running, and a session becomes logged in only by a login
\* that succeeded for a user of the users table.
C29_RoleGating ==
    /\ [](visit.body =>
              /\ LoggedIn(session)
              /\ roles_allowed(visit.page) # {} => Get(session, "role", "") \in roles_allowed(visit.page)
              /\ visit.page \in {"Projects", "AI_Summary"} =>
                     Get(session, "role", "") \in {"Admin", "Manager", "HR"})
    /\ [][(LoggedIn(session) /\ ~LoggedIn(session')) =>
              (session' = EmptySession /\ ~visit'.body)]_vars
    /\ [][(~LoggedIn(session) /\ LoggedIn(session')) =>
              /\ login_result'.ok /\ login_result'.msg = "Login successful"
              /\ \E u \in users :
                     /\ u.username = login_result'.username
                     /\ u.password = hash_password(login_result'.password)
                     /\ session'["role"] = u.role]_vars

\* after a successful login and a logout on the AI Summary page: the
\* session is empty and the page shows the login form again
C29_Witness ==
    /\ login_result.ok
    /\ session = EmptySession
    /\ visit = [page |-> "AI_Summary", body |-> FALSE]

\* a logged-in Employee is stopped at the gate of the Projects page
C29_WitnessDenied ==
    /\ LoggedIn(session) /\ session["role"] = "Employee"
    /\ visit = [page |-> "Projects", body |-> FALSE]

\* a logged-in Employee is stopped by the role check of the AI Summary page
C29_WitnessDeniedSummary ==
    /\ LoggedIn(session) /\ session["role"] = "Employee"
    /\ visit = [page |-> "AI_Summary", body |-> FALSE]

\* the body of the Projects page runs for a Manager
C29_WitnessAllowed ==
    /\ LoggedIn(session) /\ session["role"] = "Manager"
    /\ visit = [page |-> "Projects", body |-> TRUE]

\* C30 (under SpecAuth): a call of login for an unknown user, with a wrong
\* password or while the database fails returns (False, message) and leaves
\* the session as it was; a call with the password of a stored user returns
\* (True, 'Login successful') and leaves a session of exactly the keys
\* logged_in = True, user, role and user_id of that user's record.
C30_LoginFrame ==
    [][IsLoginStep =>
           LET call  == login_result'
               found == { u \in users : u.username = call.username }
           IN IF ~call.db_up
              THEN ~call.ok /\ call.msg = "Database error" /\ session' = session
              ELSE IF found = {}
              THEN ~call.ok /\ call.msg = "User not found" /\ session' = session
              ELSE IF \A u \in found : u.password # hash_password(call.password)
              THEN ~call.ok /\ call.msg = "Invalid password" /\ session' = session
              ELSE /\ call.ok /\ call.msg = "Login successful"
                   /\ \E u \in found :
                          /\ DOMAIN session' = {"logged_in", "user", "role", "user_id"}
                          /\ session'["logged_in"] = TRUE
                          /\ session'["user"] = u.username
                          /\ session'["role"] = u.role
                          /\ session'["user_id"] = u.id]_vars

\* the second user logged in with the right password
C30_Witness ==
    /\ login_result.ok /\ login_result.username = "asha"
    /\ DOMAIN session = {"logged_in", "user", "role", "user_id"}
    /\ session["user"] = "asha" /\ session["user_id"] = 2

\* a wrong password for the admin left the session empty
C30_WitnessWrongPassword ==
    /\ login_result.username = "admin" /\ login_result.password = "pass" /\ login_result.db_up
    /\ login_result.msg = "Invalid password"
    /\ session = EmptySession

\* an unknown user, and a failing database
C30_WitnessUnknownUser ==
    login_result.msg = "User not found" /\ session = EmptySession

C30_WitnessDatabaseError ==
    login_result.msg = "Database error" /\ login_result.username = "admin"
    /\ login_result.password = "admin123" /\ session = EmptySession

====
